---- MODULE Spec2Model ----
(***************************************************************************)
(* A model of netx: the connection server (Server.Serve, Server.accept,   *)
(* Server.serve, Recover) in its two revisions, and the protocol          *)
(* detection multiplexer (ProtoMux.ServeConn, guessProtocol, teeReader,   *)
(* protoConn).                                                             *)
(*                                                                         *)
(* Revision "chan" is the server of src/unnamed/part_012: an accept       *)
(* goroutine feeds Serve over two unbuffered channels.  Revision "loop"   *)
(* is the server of src/server.go: Serve runs the accept loop itself and  *)
(* a helper goroutine closes the listener when the context is done.       *)
(***************************************************************************)
EXTENDS Integers, Sequences, FiniteSets, TLC

(* ------------------------------ bounds -------------------------------- *)

\* connections a listener hands out in one run
NConns == 2

\* temporary Accept errors in a row that a listener injects before it has
\* handed out a connection (the cap of 1 s is reached at attempt 10, passed
\* at attempt 11)
MaxAttempt == 12

\* temporary Accept errors in a row that a listener injects once it has
\* handed out a connection
MaxRetry == 1

\* bytes a client sends on a multiplexed connection
MaxStream == 3

\* protocols registered with a multiplexer
MaxProtos == 2

\* the longest buffer a protocol handler passes to Read
MaxRead == 2

\* poller registrations made in one run: two by the tunnel multiplexer (its
\* from side is 1, its to side is 2), the others by other users of the poller
MaxRegs == 3

\* requests the client writes on one HTTP connection
MaxReqs == 2

\* calls a handler makes on the response writer for one request
MaxOps == 2

\* len(chunkWriter.b), 512 in the source (server.go:479), scaled down
cwCap == 2

\* bytes a handler gives to one call of Write: less than the chunk buffer
\* holds, as much, or more
MaxWrite == cwCap + 1

Conns == 1..NConns

(* ------------------------- program constants -------------------------- *)

\* const maxBackoff = 1 * time.Second, in milliseconds
maxBackoff == 1000

\* the factor of attempt*attempt: 10 * time.Millisecond, in milliseconds
backoffUnit == 10

VARIABLES
    \* ---- connection server ----
    rev,          \* which revision of the server runs: "chan" or "loop"
    ctxDone,      \* ctx.Done() is closed (base context cancelled, or cancel())
    lstnClosed,   \* lstn.Close() / closeRead(lstn) has been called
    pcS,          \* where the goroutine running Serve is
    pcA,          \* where the accept goroutine is (revision "chan")
    pcC,          \* where the goroutine closing the listener is (revision "loop")
    ret,          \* the error Serve returns: "none" until set, "nil", or an error
    doneNil,      \* Serve's local done channel was set to nil
    errsNil,      \* Serve's local errs channel was set to nil
    connsNil,     \* Serve's local conns channel was set to nil
    errsClosed,   \* close(errs) has run
    connsClosed,  \* close(conns) has run
    join,         \* the sync.WaitGroup counter
    attempt,      \* the accept loop's attempt variable
    backoff,      \* the backoff computed for the current wait, in ms
    err,          \* the accept loop's err variable
    conn,         \* the accept loop's conn variable (0: nil)
    h,            \* per connection: where its life and its serve goroutine are
    connClosed,   \* per connection: conn.Close() has been called
    panicked,     \* per connection: its handler panicked
    crashed,      \* an unrecovered panic ended the process
    \* ---- history of the run, read by the properties only ----
    tempRun,      \* temporary errors Accept returned in a row, up to now
    fatalCheck,   \* how the non-temporary error check went: "none", "cancelled", "reported"
    backoffCut,   \* the backoff wait was left through the ctx.Done() branch
    lateStarts,   \* handlers started while the listener was already closed
    cancelAt,     \* the owner cancelled the context during a backoff wait: "backoff", else "none"
    \* ---- protocol multiplexer ----
    protos,       \* mux.Protocols, numbered from 1
    timeout,      \* mux.ReadTimeout, in ms (0: none)
    sent,         \* the bytes the client writes on the connection, in order
    arrived,      \* how many of them have reached the server's socket
    peerClosed,   \* the client has closed its end
    rpos,         \* how many bytes have been read from the socket
    muxConnClosed,\* conn.Close() has been called on the server's end
    deadline,     \* the socket's read deadline: "none", "set" or "elapsed"
    mctxDone,     \* the ctx passed to ServeConn is done
    pcW,          \* guessProtocol's goroutine: "none", "select" or "exited"
    doneClosed,   \* guessProtocol's done channel is closed
    pcM,          \* where the goroutine running ServeConn is
    pi,           \* the protocol being asked (the loop's i, plus one)
    pb,           \* what the CanRead in progress has read so far
    rerr,         \* the error of the last Read of the CanRead in progress
    teeB,         \* teeReader.b
    teeI,         \* teeReader.i
    gi,           \* what guessProtocol returned: a protocol's number, -1,
                  \* or 0 while it has not returned
    head,         \* protoConn.head
    seen,         \* the bytes the chosen handler has read from its connection
    claimed,      \* the protocols whose CanRead returned true
    invoked,      \* the protocols whose ServeConn was called
    muxErr,       \* the value ServeConn panicked with ("none": no panic)
    \* ---- history, read by the properties only ----
    elapsedEarly, \* the read deadline elapsed while no protocol had claimed
    \* ---- readiness poller and tunnel multiplexer ----
    pollRev,      \* which filePoller runs: "file" (error.go, poll_kqueue.go)
                  \* or "chan" (part_032)
    fdOpen,       \* per descriptor number: a file of the poller is open on it
    files,        \* p.files: per descriptor number a registration, or 0
    armed,        \* per descriptor number: in the kernel's set, not yet fired
    regFd,        \* per registration: its descriptor number (0: not made)
    regOpen,      \* per registration: fp.f != nil
    chCloses,     \* per registration: how often close(fp.c) has run
    cancelled,    \* per registration: its cancel function has been called
    cancelMid,    \* per registration: a call of cancel is between its two halves (1)
    pcD,          \* where the dispatcher goroutine is
    dFd,          \* the dispatcher's fd variable
    dFp,          \* the dispatcher's fp variable (a registration, or 0)
    pcT,          \* where the goroutine running ServeTunnel is
    tMid,         \* ServeTunnel is between the two halves of a cancel call
    tSide,        \* the side whose ready channel the select took (0: none)
    tCtxDone,     \* the ctx of ServeTunnel is done (cancelled or timed out)
    tOut,         \* how ServeTunnel ends: "none", "returned" or "panicked"
    \* ---- history, read by the properties only ----
    stolen,       \* registrations whose p.files entry another one's cancel deleted
    \* ---- httpx.Server.ServeConn on one connection ----
    hasFile,      \* serverConn.f != nil: the connection gives a file to poll
    nsent,        \* how many requests the client has written
    sock,         \* the requests in the socket buffer, not yet read
    Reader,       \* the requests in the bufio.Reader of serverConn
    eof,          \* the client has closed its side for writing
    connBroken,   \* writes to the connection fail
    pcH,          \* where ServeConn is
    req,          \* the request being served
    closed,       \* the variable closed of ServeConn
    bodyLeft,     \* bytes of the body of req not yet read
    nreq,         \* how many requests ServeConn has parsed
    res,          \* the responseWriter (cwn is res.cw.n)
    Writer,       \* what the bufio.Writer of serverConn holds, not flushed
    wire,         \* what has reached the connection for the request served
    ops,          \* calls the handler has made for this request
    werr,         \* the error the handler's last call on the writer returned,
                  \* "panic" when the handler ended with a panic
    scClosed,     \* the deferred sc.Close() of ServeConn has run
    \* ---- history, read by the properties only ----
    whAgain,      \* the handler called WriteHeader with a status already set
    answered,     \* the requests whose status line has reached the connection
    responded,    \* the requests serveHTTP is done with, in order
    excused,      \* a close was asked, an error met, a handler panicked or gave
                  \* a bad Content-Length, or ctx was cancelled
    \* ---- httpx.chunkWriter, byte by byte ----
    cw,           \* the chunkWriter: b is res.b[:res.n], out the chunks written
                  \* to res.w, ret what the last Write returned; and the
                  \* history of its use: in, the bytes given to Write, calls,
                  \* last, the length of the slice the last Write was given
    \* ---- the header limit of serverConn.readRequest, in bytes ----
    hp,           \* limit is conn.c.limit, buf the bytes the bufio.Reader
                  \* holds, net the bytes still on the connection, lens the
                  \* header lengths of the requests sent, n the request being
                  \* read, given the bytes http.ReadRequest has got for it
    \* ---- serverConn.waitReadyRead and the clock, in seconds ----
    wt,           \* timeout is s.IdleTimeout, now the clock, since the time
                  \* of the call, until pollRead's deadline or the time
                  \* waitRead's timer fires, rd the read deadline of the
                  \* connection, data what the peer has done, ctx whether
                  \* the context is cancelled, result the error returned
    \* ---- TunnelProtoMux.ServeTunnel ----
    tm,           \* one call of ServeTunnel: where it is, whether
                  \* ReadTimeout is set, whether its timer fired, whether
                  \* the caller cancelled, the sides with bytes to read,
                  \* the side chosen, the connections closed, the protocol
                  \* chosen, the context its handler got, whether it gave up
    \* ---- Server.ServeConn and its ReadTimeout ----
    rq,           \* one connection of ServeConn: where the loop is, ReadTimeout,
                  \* the clock, the read deadline, the pieces the client wrote,
                  \* those in the socket, those in the bufio.Reader, the requests
                  \* read, the responses written, whether the server closed, the
                  \* responses the client read, what its last Read gave, why
                  \* ServeConn returned
    \* ---- Listen and MultiListener ----
    ml,           \* Listen and the compound listener: where Listen is, the number
                  \* of addresses, the children opened and closed, what Listen
                  \* returned, each child goroutine's position and pending error,
                  \* the connections accepted, returned and closed, each Close
                  \* caller's position, the loop's i, the once, m.x, and what the
                  \* last Accept returned
    \* ---- Tunnel.ServeProxy and Forwarder.ServeTunnel ----
    fw,           \* one tunnelled connection: where ServeProxy is, whether its
                  \* ctx is done, whether from and to are closed on the tunnel's
                  \* side, and per direction the copy goroutine, the bytes the
                  \* peer wrote, those not read yet, those delivered, and
                  \* whether the peer closed its end
    \* ---- ConnTransport.RoundTrip ----
    ct            \* one RoundTrip: where it is, whether t.Conn was set, whether
                  \* the transport dialled, whether the connection is open, the
                  \* connReader's cancel field, ResponseHeaderTimeout set or
                  \* not, the read deadline, the pieces of the response
                  \* header read, the body bytes left, whether the body closes
                  \* the connection, the error returned, the error of the last
                  \* Read of the connection and where it happened

chanVars == <<doneNil, errsNil, connsNil, errsClosed, connsClosed>>
loopVars == <<attempt, backoff, err, conn>>
connVars == <<h, connClosed, panicked>>
histVars == <<tempRun, fatalCheck, backoffCut, lateStarts, cancelAt>>

srvVars == <<rev, ctxDone, lstnClosed, pcS, pcA, pcC, ret, join, crashed,
             chanVars, loopVars, connVars, histVars>>

cfgVars == <<protos, timeout, sent>>
netVars == <<arrived, peerClosed, rpos, muxConnClosed, deadline>>
ctlVars == <<mctxDone, pcW, doneClosed>>
probeVars == <<pi, pb, rerr>>
teeVars == <<teeB, teeI>>
outVars == <<gi, head, seen, claimed, invoked, muxErr>>

muxVars == <<cfgVars, netVars, ctlVars, probeVars, teeVars, outVars, pcM,
             elapsedEarly>>

kernelVars == <<fdOpen, armed>>
regVars == <<regFd, regOpen, chCloses, cancelled, cancelMid>>
dispVars == <<pcD, dFd, dFp>>
tunVars == <<pcT, tMid, tSide, tCtxDone, tOut>>

pollVars == <<pollRev, kernelVars, files, regVars, dispVars, tunVars, stolen>>

srvHVars == <<pcH, req, closed, bodyLeft, nreq, scClosed>>
resVars == <<res, Writer, wire, ops, whAgain, werr>>
histHVars == <<answered, responded, excused>>

httpVars == <<hasFile, nsent, sock, Reader, eof, connBroken,
              srvHVars, resVars, histHVars>>

\* the variables of the parts of httpx that are modelled on their own
partVars == <<cw, hp, wt, tm, rq, ml, fw, ct>>

\* what the steps of one component leave alone
notSrvVars == <<muxVars, pollVars, httpVars, partVars>>
notMuxVars == <<srvVars, pollVars, httpVars, partVars>>
notPollVars == <<srvVars, muxVars, httpVars, partVars>>
notHttpVars == <<srvVars, muxVars, pollVars, partVars>>
mainVars == <<srvVars, muxVars, pollVars, httpVars>>
notChunkVars == <<mainVars, hp, wt, tm, rq, ml, fw, ct>>
notLimitVars == <<mainVars, cw, wt, tm, rq, ml, fw, ct>>
notWaitVars == <<mainVars, cw, hp, tm, rq, ml, fw, ct>>
notTmuxVars == <<mainVars, cw, hp, wt, rq, ml, fw, ct>>
notRtVars == <<mainVars, cw, hp, wt, tm, ml, fw, ct>>
notMlVars == <<mainVars, cw, hp, wt, tm, rq, fw, ct>>
notFwdVars == <<mainVars, cw, hp, wt, tm, rq, ml, ct>>
notTripVars == <<mainVars, cw, hp, wt, tm, rq, ml, fw>>

vars == <<srvVars, muxVars, pollVars, httpVars, partVars>>

(* ----------------------------- helpers -------------------------------- *)

Min(a, b) == IF a < b THEN a ELSE b

\* Backoff without the cap
BackoffNoCap(a) == a * a * backoffUnit

\* backoff := time.Duration(attempt*attempt) * 10 * time.Millisecond, capped
\* by maxBackoff
Backoff(a) ==
    LET b == a * a * backoffUnit
    IN  IF b > maxBackoff THEN maxBackoff ELSE b

\* IsTemporary(err)
IsTemporary(e) == e = "temp"

(* ------------------------------ listener ------------------------------ *)

\* lstn.Accept() can return connection c: the listener is open and c is the
\* next connection waiting on it
ListenerGives(c) ==
    /\ ~lstnClosed
    /\ h[c] = "new"
    /\ \A d \in Conns : d < c => h[d] # "new"

\* the length a run of temporary errors may reach now
RunBound == IF \A c \in Conns : h[c] = "new" THEN MaxAttempt ELSE MaxRetry

\* the errors lstn.Accept() can return now: "closed" once the listener is
\* closed; before that a temporary error (as long as the run of temporary
\* errors is below the bound) or a failure of the listener itself
AcceptErrs ==
    IF lstnClosed
    THEN {"closed"}
    ELSE {"fatal"} \cup (IF attempt < RunBound THEN {"temp"} ELSE {})

(* ------------------ the context handed to the server ------------------ *)

\* the owner of Server.Context cancelled it, while Serve has not yet executed a
\* return statement (after that Serve's own deferred cancel() does the same)
CtxCancel ==
    /\ ~crashed
    /\ ~ctxDone
    /\ ret = "none"
    /\ ctxDone' = TRUE
    /\ cancelAt' = IF "backoff" \in {pcA, pcS} THEN "backoff" ELSE "none"
    /\ UNCHANGED notSrvVars
    /\ UNCHANGED <<rev, lstnClosed, pcS, pcA, pcC, ret, join, crashed,
                   chanVars, loopVars, connVars, tempRun, fatalCheck,
                   backoffCut, lateStarts>>

(* ------------- revision "chan": Server.accept (part_012) -------------- *)

\* conn, err = lstn.Accept(), with the computation of the backoff when the
\* error is temporary
acceptCall ==
    /\ ~crashed
    /\ rev = "chan"
    /\ pcA = "accept"
    /\ \/ \E c \in Conns :
            /\ ListenerGives(c)
            /\ conn' = c
            /\ err' = "nil"
            /\ h' = [h EXCEPT ![c] = "accepted"]
            /\ pcA' = "sendConn"
            /\ tempRun' = 0
            /\ UNCHANGED <<backoff, attempt>>
       \/ \E e \in AcceptErrs :
            /\ conn' = 0
            /\ err' = e
            /\ IF IsTemporary(e)
               THEN /\ backoff' = Backoff(attempt)
                    /\ pcA' = "backoff"
                    /\ tempRun' = tempRun + 1
               ELSE /\ pcA' = "checkErr"
                    /\ UNCHANGED <<backoff, tempRun>>
            /\ UNCHANGED <<h, attempt>>
    /\ UNCHANGED notSrvVars
    /\ UNCHANGED <<rev, ctxDone, lstnClosed, pcS, pcC, ret, join, crashed,
                   chanVars, connClosed, panicked, fatalCheck, backoffCut,
                   lateStarts, cancelAt>>

\* case <-time.After(backoff): the loop goes round, attempt++ (backoff is
\* local to the iteration)
acceptBackoffTimer ==
    /\ ~crashed
    /\ rev = "chan"
    /\ pcA = "backoff"
    /\ attempt' = attempt + 1
    /\ backoff' = 0
    /\ pcA' = "accept"
    /\ UNCHANGED notSrvVars
    /\ UNCHANGED <<rev, ctxDone, lstnClosed, pcS, pcC, ret, join, crashed,
                   chanVars, err, conn, connVars, histVars>>

\* case <-ctx.Done(): return
acceptBackoffCancel ==
    /\ ~crashed
    /\ rev = "chan"
    /\ pcA = "backoff"
    /\ ctxDone
    /\ pcA' = "closeConns"
    /\ backoffCut' = TRUE
    /\ UNCHANGED notSrvVars
    /\ UNCHANGED <<rev, ctxDone, lstnClosed, pcS, pcC, ret, join, crashed,
                   chanVars, loopVars, connVars, tempRun, fatalCheck,
                   lateStarts, cancelAt>>

\* acceptCheckErr reporting the error whatever the context says
acceptCheckErrAlways ==
    /\ ~crashed
    /\ rev = "chan"
    /\ pcA = "checkErr"
    /\ pcA' = "sendErr"
    /\ fatalCheck' = IF ctxDone THEN "cancelled" ELSE "reported"
    /\ UNCHANGED notSrvVars
    /\ UNCHANGED <<rev, ctxDone, lstnClosed, pcS, pcC, ret, join, crashed,
                   chanVars, loopVars, connVars, tempRun, backoffCut,
                   lateStarts, cancelAt>>

\* if err != nil { select { case <-ctx.Done(): default: errs <- err }; return }
\* up to the point where the send on errs blocks
acceptCheckErr ==
    /\ ~crashed
    /\ rev = "chan"
    /\ pcA = "checkErr"
    /\ IF ctxDone
       THEN pcA' = "closeConns" /\ fatalCheck' = "cancelled"
       ELSE pcA' = "sendErr" /\ fatalCheck' = "reported"
    /\ UNCHANGED notSrvVars
    /\ UNCHANGED <<rev, ctxDone, lstnClosed, pcS, pcC, ret, join, crashed,
                   chanVars, loopVars, connVars, tempRun, backoffCut,
                   lateStarts, cancelAt>>

\* defer close(conns)
acceptCloseConns ==
    /\ ~crashed
    /\ rev = "chan"
    /\ pcA = "closeConns"
    /\ connsClosed' = TRUE
    /\ pcA' = "closeErrs"
    /\ UNCHANGED notSrvVars
    /\ UNCHANGED <<rev, ctxDone, lstnClosed, pcS, pcC, ret, join, crashed,
                   doneNil, errsNil, connsNil, errsClosed, loopVars, connVars,
                   histVars>>

\* acceptCloseErrs without the close: errs is left open
acceptCloseErrsSkipped ==
    /\ ~crashed
    /\ rev = "chan"
    /\ pcA = "closeErrs"
    /\ pcA' = "joinDone"
    /\ UNCHANGED notSrvVars
    /\ UNCHANGED <<rev, ctxDone, lstnClosed, pcS, pcC, ret, join, crashed,
                   chanVars, loopVars, connVars, histVars>>

\* defer close(errs)
acceptCloseErrs ==
    /\ ~crashed
    /\ rev = "chan"
    /\ pcA = "closeErrs"
    /\ errsClosed' = TRUE
    /\ pcA' = "joinDone"
    /\ UNCHANGED notSrvVars
    /\ UNCHANGED <<rev, ctxDone, lstnClosed, pcS, pcC, ret, join, crashed,
                   doneNil, errsNil, connsNil, connsClosed, loopVars, connVars,
                   histVars>>

\* defer join.Done()
acceptJoinDone ==
    /\ ~crashed
    /\ rev = "chan"
    /\ pcA = "joinDone"
    /\ join' = join - 1
    /\ pcA' = "exited"
    /\ UNCHANGED notSrvVars
    /\ UNCHANGED <<rev, ctxDone, lstnClosed, pcS, pcC, ret, crashed,
                   chanVars, loopVars, connVars, histVars>>

(* -------------- revision "chan": Server.Serve (part_012) -------------- *)

\* ServeSelectDone without lstn.Close()
ServeSelectDoneNoClose ==
    /\ ~crashed
    /\ rev = "chan"
    /\ pcS = "select"
    /\ ~doneNil
    /\ ctxDone
    /\ doneNil' = TRUE
    /\ UNCHANGED notSrvVars
    /\ UNCHANGED <<rev, ctxDone, lstnClosed, pcS, pcA, pcC, ret, join,
                   crashed, errsNil, connsNil, errsClosed, connsClosed,
                   loopVars, connVars, histVars>>

\* case <-done: lstn.Close(); done = nil
ServeSelectDone ==
    /\ ~crashed
    /\ rev = "chan"
    /\ pcS = "select"
    /\ ~doneNil
    /\ ctxDone
    /\ lstnClosed' = TRUE
    /\ doneNil' = TRUE
    /\ UNCHANGED notSrvVars
    /\ UNCHANGED <<rev, ctxDone, pcS, pcA, pcC, ret, join, crashed, errsNil,
                   connsNil, errsClosed, connsClosed, loopVars, connVars,
                   histVars>>

\* case err, ok := <-errs with ok: return err
ServeRecvErr ==
    /\ ~crashed
    /\ rev = "chan"
    /\ pcS = "select"
    /\ ~errsNil
    /\ pcA = "sendErr"
    /\ ret' = err
    /\ pcS' = "deferCancel"
    /\ pcA' = "closeConns"
    /\ UNCHANGED notSrvVars
    /\ UNCHANGED <<rev, ctxDone, lstnClosed, pcC, join, crashed, chanVars,
                   loopVars, connVars, histVars>>

\* case err, ok := <-errs with !ok: errs = nil; continue, and the loop ends
\* with return nil when conns is nil too
ServeErrsClosed ==
    /\ ~crashed
    /\ rev = "chan"
    /\ pcS = "select"
    /\ ~errsNil
    /\ errsClosed
    /\ errsNil' = TRUE
    /\ IF connsNil
       THEN pcS' = "deferCancel" /\ ret' = "nil"
       ELSE UNCHANGED <<pcS, ret>>
    /\ UNCHANGED notSrvVars
    /\ UNCHANGED <<rev, ctxDone, lstnClosed, pcA, pcC, join, crashed, doneNil,
                   connsNil, errsClosed, connsClosed, loopVars, connVars,
                   histVars>>

\* case conn, ok := <-conns with ok: join.Add(1); go s.serve(ctx, conn, join);
\* the sender goes on to its next iteration (attempt := 0)
ServeRecvConn ==
    /\ ~crashed
    /\ rev = "chan"
    /\ pcS = "select"
    /\ ~connsNil
    /\ pcA = "sendConn"
    /\ join' = join + 1
    /\ h' = [h EXCEPT ![conn] = "running"]
    /\ lateStarts' = lateStarts + (IF lstnClosed THEN 1 ELSE 0)
    /\ pcA' = "accept"
    /\ attempt' = 0
    /\ conn' = 0
    /\ UNCHANGED notSrvVars
    /\ UNCHANGED <<rev, ctxDone, lstnClosed, pcS, pcC, ret, crashed, chanVars,
                   backoff, err, connClosed, panicked, tempRun, fatalCheck,
                   backoffCut, cancelAt>>

\* case conn, ok := <-conns with !ok: conns = nil; continue, and the loop
\* ends with return nil when errs is nil too
ServeConnsClosed ==
    /\ ~crashed
    /\ rev = "chan"
    /\ pcS = "select"
    /\ ~connsNil
    /\ connsClosed
    /\ connsNil' = TRUE
    /\ IF errsNil
       THEN pcS' = "deferCancel" /\ ret' = "nil"
       ELSE UNCHANGED <<pcS, ret>>
    /\ UNCHANGED notSrvVars
    /\ UNCHANGED <<rev, ctxDone, lstnClosed, pcA, pcC, join, crashed, doneNil,
                   errsNil, errsClosed, connsClosed, loopVars, connVars,
                   histVars>>

\* defer cancel()
ServeDeferCancel ==
    /\ ~crashed
    /\ rev = "chan"
    /\ pcS = "deferCancel"
    /\ ctxDone' = TRUE
    /\ pcS' = "deferClose"
    /\ UNCHANGED notSrvVars
    /\ UNCHANGED <<rev, lstnClosed, pcA, pcC, ret, join, crashed, chanVars,
                   loopVars, connVars, histVars>>

\* defer lstn.Close()
ServeDeferClose ==
    /\ ~crashed
    /\ rev = "chan"
    /\ pcS = "deferClose"
    /\ lstnClosed' = TRUE
    /\ pcS' = "wait"
    /\ UNCHANGED notSrvVars
    /\ UNCHANGED <<rev, ctxDone, pcA, pcC, ret, join, crashed, chanVars,
                   loopVars, connVars, histVars>>

\* ServeWait returning without waiting for the counter
ServeWaitNoJoin ==
    /\ ~crashed
    /\ rev = "chan"
    /\ pcS = "wait"
    /\ pcS' = "returned"
    /\ UNCHANGED notSrvVars
    /\ UNCHANGED <<rev, ctxDone, lstnClosed, pcA, pcC, ret, join, crashed,
                   chanVars, loopVars, connVars, histVars>>

\* defer join.Wait(): Serve returns once the counter is zero
ServeWait ==
    /\ ~crashed
    /\ rev = "chan"
    /\ pcS = "wait"
    /\ join = 0
    /\ pcS' = "returned"
    /\ UNCHANGED notSrvVars
    /\ UNCHANGED <<rev, ctxDone, lstnClosed, pcA, pcC, ret, join, crashed,
                   chanVars, loopVars, connVars, histVars>>

(* --------------------- Server.serve, both revisions ------------------- *)

\* s.Handler.ServeConn(ctx, conn) returns; the deferred cancel() of the child
\* context and the deferred conn.Close() run
serveReturn(c) ==
    /\ ~crashed
    /\ h[c] = "running"
    /\ connClosed' = [connClosed EXCEPT ![c] = TRUE]
    /\ h' = [h EXCEPT ![c] = "done"]
    /\ UNCHANGED notSrvVars
    /\ UNCHANGED <<rev, ctxDone, lstnClosed, pcS, pcA, pcC, ret, join, crashed,
                   chanVars, loopVars, panicked, histVars>>

\* s.Handler.ServeConn(ctx, conn) panics; the deferred cancel() and the
\* deferred conn.Close() run all the same
servePanic(c) ==
    /\ ~crashed
    /\ h[c] = "running"
    /\ panicked' = [panicked EXCEPT ![c] = TRUE]
    /\ connClosed' = [connClosed EXCEPT ![c] = TRUE]
    /\ h' = [h EXCEPT ![c] = "done"]
    /\ UNCHANGED notSrvVars
    /\ UNCHANGED <<rev, ctxDone, lstnClosed, pcS, pcA, pcC, ret, join, crashed,
                   chanVars, loopVars, histVars>>

\* defer join.Done()
serveDone(c) ==
    /\ ~crashed
    /\ h[c] = "done"
    /\ join' = join - 1
    /\ h' = [h EXCEPT ![c] = "recover"]
    /\ UNCHANGED notSrvVars
    /\ UNCHANGED <<rev, ctxDone, lstnClosed, pcS, pcA, pcC, ret, crashed,
                   chanVars, loopVars, connClosed, panicked, histVars>>

\* serveRecover with recover() evaluated when the defer statement runs, as in
\* defer Recover(recover(), conn, s.ErrorLog): the panic is not stopped
serveRecoverLate(c) ==
    /\ ~crashed
    /\ h[c] = "recover"
    /\ h' = [h EXCEPT ![c] = "exited"]
    /\ crashed' = panicked[c]
    /\ UNCHANGED notSrvVars
    /\ UNCHANGED <<rev, ctxDone, lstnClosed, pcS, pcA, pcC, ret, join,
                   chanVars, loopVars, connClosed, panicked, histVars>>

\* defer func() { Recover(recover(), conn, s.ErrorLog) }(): recover() is
\* called by the deferred function itself, so it stops the panic; Recover
\* logs it
serveRecover(c) ==
    /\ ~crashed
    /\ h[c] = "recover"
    /\ h' = [h EXCEPT ![c] = "exited"]
    /\ UNCHANGED notSrvVars
    /\ UNCHANGED <<rev, ctxDone, lstnClosed, pcS, pcA, pcC, ret, join, crashed,
                   chanVars, loopVars, connClosed, panicked, histVars>>

(* -------------- revision "loop": Server.Serve (server.go) ------------- *)

\* go func(ctx) { <-ctx.Done(); closeRead(lstn) }(ctx)
LoopCloseOnDone ==
    /\ ~crashed
    /\ rev = "loop"
    /\ pcC = "wait"
    /\ ctxDone
    /\ lstnClosed' = TRUE
    /\ pcC' = "exited"
    /\ UNCHANGED notSrvVars
    /\ UNCHANGED <<rev, ctxDone, pcS, pcA, ret, join, crashed, chanVars,
                   loopVars, connVars, histVars>>

\* conn, err = lstn.Accept(), with the computation of the backoff when the
\* error is temporary
LoopAccept ==
    /\ ~crashed
    /\ rev = "loop"
    /\ pcS = "accept"
    /\ \/ \E c \in Conns :
            /\ ListenerGives(c)
            /\ conn' = c
            /\ err' = "nil"
            /\ h' = [h EXCEPT ![c] = "accepted"]
            /\ pcS' = "spawn"
            /\ tempRun' = 0
            /\ UNCHANGED <<backoff, attempt>>
       \/ \E e \in AcceptErrs :
            /\ conn' = 0
            /\ err' = e
            /\ IF IsTemporary(e)
               THEN /\ backoff' = Backoff(attempt)
                    /\ pcS' = "backoff"
                    /\ tempRun' = tempRun + 1
               ELSE /\ pcS' = "checkErr"
                    /\ UNCHANGED <<backoff, tempRun>>
            /\ UNCHANGED <<h, attempt>>
    /\ UNCHANGED notSrvVars
    /\ UNCHANGED <<rev, ctxDone, lstnClosed, pcA, pcC, ret, join, crashed,
                   chanVars, connClosed, panicked, fatalCheck, backoffCut,
                   lateStarts, cancelAt>>

\* case <-time.After(backoff): the loop goes round, attempt++ (backoff is
\* local to the iteration)
LoopBackoffTimer ==
    /\ ~crashed
    /\ rev = "loop"
    /\ pcS = "backoff"
    /\ attempt' = attempt + 1
    /\ backoff' = 0
    /\ pcS' = "accept"
    /\ UNCHANGED notSrvVars
    /\ UNCHANGED <<rev, ctxDone, lstnClosed, pcA, pcC, ret, join, crashed,
                   chanVars, err, conn, connVars, histVars>>

\* case <-ctx.Done(): return, which returns the named result err as it is
LoopBackoffCancel ==
    /\ ~crashed
    /\ rev = "loop"
    /\ pcS = "backoff"
    /\ ctxDone
    /\ ret' = err
    /\ pcS' = "deferCancel"
    /\ backoffCut' = TRUE
    /\ UNCHANGED notSrvVars
    /\ UNCHANGED <<rev, ctxDone, lstnClosed, pcA, pcC, join, crashed,
                   chanVars, loopVars, connVars, tempRun, fatalCheck,
                   lateStarts, cancelAt>>

\* if err != nil { select { default: case <-ctx.Done(): err = nil }; return }
LoopCheckErr ==
    /\ ~crashed
    /\ rev = "loop"
    /\ pcS = "checkErr"
    /\ IF ctxDone
       THEN err' = "nil" /\ fatalCheck' = "cancelled"
       ELSE err' = err /\ fatalCheck' = "reported"
    /\ ret' = err'
    /\ pcS' = "deferCancel"
    /\ UNCHANGED notSrvVars
    /\ UNCHANGED <<rev, ctxDone, lstnClosed, pcA, pcC, join, crashed,
                   chanVars, attempt, backoff, conn, connVars, tempRun,
                   backoffCut, lateStarts, cancelAt>>

\* join.Add(1); go s.serve(ctx, conn, join); next iteration (attempt := 0)
LoopSpawn ==
    /\ ~crashed
    /\ rev = "loop"
    /\ pcS = "spawn"
    /\ join' = join + 1
    /\ h' = [h EXCEPT ![conn] = "running"]
    /\ lateStarts' = lateStarts + (IF lstnClosed THEN 1 ELSE 0)
    /\ pcS' = "accept"
    /\ attempt' = 0
    /\ conn' = 0
    /\ UNCHANGED notSrvVars
    /\ UNCHANGED <<rev, ctxDone, lstnClosed, pcA, pcC, ret, crashed, chanVars,
                   backoff, err, connClosed, panicked, tempRun, fatalCheck,
                   backoffCut, cancelAt>>

\* defer cancel()
LoopDeferCancel ==
    /\ ~crashed
    /\ rev = "loop"
    /\ pcS = "deferCancel"
    /\ ctxDone' = TRUE
    /\ pcS' = "wait"
    /\ UNCHANGED notSrvVars
    /\ UNCHANGED <<rev, lstnClosed, pcA, pcC, ret, join, crashed, chanVars,
                   loopVars, connVars, histVars>>

\* defer join.Wait()
LoopWait ==
    /\ ~crashed
    /\ rev = "loop"
    /\ pcS = "wait"
    /\ join = 0
    /\ pcS' = "deferClose"
    /\ UNCHANGED notSrvVars
    /\ UNCHANGED <<rev, ctxDone, lstnClosed, pcA, pcC, ret, join, crashed,
                   chanVars, loopVars, connVars, histVars>>

\* defer lstn.Close(): Serve returns
LoopDeferClose ==
    /\ ~crashed
    /\ rev = "loop"
    /\ pcS = "deferClose"
    /\ lstnClosed' = TRUE
    /\ pcS' = "returned"
    /\ UNCHANGED notSrvVars
    /\ UNCHANGED <<rev, ctxDone, pcA, pcC, ret, join, crashed, chanVars,
                   loopVars, connVars, histVars>>

(* ------------- protocol multiplexer: the connection (net.Conn) -------- *)

\* the byte values of the model
Bytes == {1, 2}

\* the sequences over S of length up to n
SeqsUpTo(S, n) == UNION {[1..k -> S] : k \in 0..n}

\* what a CanRead that reads looks for at the start of the stream (protoEchoRev
\* looks for "/rev ")
Patterns == {<<1>>, <<1, 2>>, <<2, 2>>}

\* the protocols of the repository: the ones whose CanRead returns true
\* without reading (protoEcho, Proxy), and the ones whose CanRead reads the
\* first bytes with io.ReadFull and compares them (protoEchoRev)
ProtoKinds ==
    {[any |-> TRUE, want |-> <<>>]}
        \cup {[any |-> FALSE, want |-> w] : w \in Patterns}

\* conn.Read returns now instead of blocking
ConnReadable ==
    muxConnClosed \/ deadline = "elapsed" \/ arrived > rpos \/ peerClosed

\* the error conn.Read returns now: a closed connection and a passed deadline
\* fail the call before any byte is read
ConnReadErr ==
    IF muxConnClosed THEN "closed"
    ELSE IF deadline = "elapsed" THEN "timeout"
    ELSE IF arrived > rpos THEN "none"
    ELSE "EOF"

\* the number of bytes conn.Read puts in a buffer of len bytes now
ConnReadN(len) ==
    IF ConnReadErr = "none" THEN Min(len, arrived - rpos) ELSE 0

\* ServeConn has been called and has neither returned nor panicked
MuxRunning == pcM \notin {"idle", "panicked", "finished"}

\* the client writes its next byte
ClientWrite ==
    /\ MuxRunning
    /\ ~peerClosed
    /\ arrived < Len(sent)
    /\ arrived' = arrived + 1
    /\ UNCHANGED notMuxVars
    /\ UNCHANGED <<cfgVars, peerClosed, rpos, muxConnClosed, deadline,
                   ctlVars, probeVars, teeVars, outVars, pcM, elapsedEarly>>

\* the client has written everything and closes its end
ClientClose ==
    /\ MuxRunning
    /\ ~peerClosed
    /\ arrived = Len(sent)
    /\ peerClosed' = TRUE
    /\ UNCHANGED notMuxVars
    /\ UNCHANGED <<cfgVars, arrived, rpos, muxConnClosed, deadline,
                   ctlVars, probeVars, teeVars, outVars, pcM, elapsedEarly>>

\* the read deadline set by guessProtocol passes
DeadlineElapse ==
    /\ MuxRunning
    /\ deadline = "set"
    /\ deadline' = "elapsed"
    /\ elapsedEarly' = (elapsedEarly \/ pcM \in {"loop", "probe"})
    /\ UNCHANGED notMuxVars
    /\ UNCHANGED <<cfgVars, arrived, peerClosed, rpos, muxConnClosed,
                   ctlVars, probeVars, teeVars, outVars, pcM>>

\* the ctx passed to ServeConn is cancelled
MuxCtxCancel ==
    /\ MuxRunning
    /\ ~mctxDone
    /\ mctxDone' = TRUE
    /\ UNCHANGED notMuxVars
    /\ UNCHANGED <<cfgVars, netVars, pcW, doneClosed, probeVars, teeVars,
                   outVars, pcM, elapsedEarly>>

(* ------------- protocol multiplexer: guessProtocol (part_035) --------- *)

\* teeReader.bytes with the bytes already replayed left out
bytesUnread == SubSeq(teeB, teeI + 1, Len(teeB))

\* func (t *teeReader) bytes() []byte { return t.b }
bytes == teeB

\* a reset that leaves the reader where the last protocol stopped
resetNot == teeI' = teeI

\* func (t *teeReader) reset() { t.i = 0 }
reset == teeI' = 0

\* ProtoMux.ServeConn calls guessProtocol: done := make(chan struct{}),
\* defer close(done), go func() { select ... }()
guessProtocolGo ==
    /\ pcM = "start"
    /\ pcW' = "select"
    /\ pcM' = "deadline"
    /\ UNCHANGED notMuxVars
    /\ UNCHANGED <<cfgVars, netVars, mctxDone, doneClosed, probeVars,
                   teeVars, outVars, elapsedEarly>>

\* the goroutine of guessProtocol takes case <-done
watcherDone ==
    /\ pcW = "select"
    /\ doneClosed
    /\ pcW' = "exited"
    /\ UNCHANGED notMuxVars
    /\ UNCHANGED <<cfgVars, netVars, mctxDone, doneClosed, probeVars,
                   teeVars, outVars, pcM, elapsedEarly>>

\* the goroutine of guessProtocol takes case <-ctx.Done(): conn.Close()
watcherClose ==
    /\ pcW = "select"
    /\ mctxDone
    /\ muxConnClosed' = TRUE
    /\ pcW' = "exited"
    /\ UNCHANGED notMuxVars
    /\ UNCHANGED <<cfgVars, arrived, peerClosed, rpos, deadline, mctxDone,
                   doneClosed, probeVars, teeVars, outVars, pcM,
                   elapsedEarly>>

\* if timeout != 0 { conn.SetReadDeadline(...) } (an error, which a closed
\* connection gives, panics and the deferred close(done) runs), then
\* tr := &teeReader{...} and the loop is entered
guessProtocolDeadline ==
    /\ pcM = "deadline"
    /\ IF timeout # 0 /\ muxConnClosed
       THEN /\ muxErr' = "closed"
            /\ doneClosed' = TRUE
            /\ pcM' = "panicked"
            /\ UNCHANGED <<deadline, pi, teeB, teeI>>
       ELSE /\ deadline' = IF timeout # 0 THEN "set" ELSE deadline
            /\ teeB' = <<>>
            /\ teeI' = 0
            /\ pi' = 1
            /\ pcM' = "loop"
            /\ UNCHANGED <<muxErr, doneClosed>>
    /\ UNCHANGED notMuxVars
    /\ UNCHANGED <<cfgVars, arrived, peerClosed, rpos, muxConnClosed,
                   mctxDone, pcW, pb, rerr, gi, head, seen, claimed,
                   invoked, elapsedEarly>>

\* for i, proto := range protos: the next protocol's CanRead(tr) is called,
\* or the loop is over: return -1, &protoConn{conn, tr.bytes()}, and the
\* deferred close(done) runs
guessProtocolLoop ==
    /\ pcM = "loop"
    /\ IF pi <= Len(protos)
       THEN /\ pb' = <<>>
            /\ rerr' = "none"
            /\ pcM' = "probe"
            /\ UNCHANGED <<gi, head, doneClosed>>
       ELSE /\ gi' = -1
            /\ head' = bytes
            /\ doneClosed' = TRUE
            /\ pcM' = "guessed"
            /\ UNCHANGED <<pb, rerr>>
    /\ UNCHANGED notMuxVars
    /\ UNCHANGED <<cfgVars, netVars, mctxDone, pcW, pi, teeVars, seen,
                   claimed, invoked, muxErr, elapsedEarly>>

\* one Read of the io.ReadFull in a CanRead, on the teeReader: teeReader.Read
\* replays what t.b holds past t.i, else reads the connection and records
\* what it got
teeReaderRead ==
    /\ pcM = "probe"
    /\ ~protos[pi].any
    /\ rerr = "none"
    /\ Len(pb) < Len(protos[pi].want)
    /\ LET len == Len(protos[pi].want) - Len(pb)
       IN  IF teeI < Len(teeB)
           THEN LET n1 == Len(teeB) - teeI
                    n2 == IF len > n1 THEN n1 ELSE len
                IN  /\ pb' = pb \o SubSeq(teeB, teeI + 1, teeI + n2)
                    /\ teeI' = teeI + n2
                    /\ UNCHANGED <<teeB, rpos, rerr>>
           ELSE /\ ConnReadable
                /\ LET n == ConnReadN(len)
                       data == SubSeq(sent, rpos + 1, rpos + n)
                   IN  /\ rpos' = rpos + n
                       /\ rerr' = ConnReadErr
                       /\ teeB' = IF n > 0 THEN teeB \o data ELSE teeB
                       /\ teeI' = IF n > 0 THEN teeI + n ELSE teeI
                       /\ pb' = pb \o data
    /\ UNCHANGED notMuxVars
    /\ UNCHANGED <<cfgVars, arrived, peerClosed, muxConnClosed, deadline,
                   ctlVars, pi, outVars, pcM, elapsedEarly>>

\* proto.CanRead(tr) returns true: at once for a protocol that takes any
\* stream, after reading the bytes it looks for otherwise; guessProtocol
\* returns i, &protoConn{conn, tr.bytes()} and the deferred close(done) runs
CanReadTrue ==
    /\ pcM = "probe"
    /\ \/ protos[pi].any
       \/ rerr = "none" /\ pb = protos[pi].want
    /\ claimed' = claimed \cup {pi}
    /\ gi' = pi
    /\ head' = bytes
    /\ doneClosed' = TRUE
    /\ pcM' = "guessed"
    /\ UNCHANGED notMuxVars
    /\ UNCHANGED <<cfgVars, netVars, mctxDone, pcW, probeVars, teeVars,
                   seen, invoked, muxErr, elapsedEarly>>

\* proto.CanRead(tr) returns false (io.ReadFull failed, or the bytes are not
\* the protocol's): tr.reset() and the loop goes on
CanReadFalse ==
    /\ pcM = "probe"
    /\ ~protos[pi].any
    /\ \/ rerr # "none"
       \/ Len(pb) = Len(protos[pi].want) /\ pb # protos[pi].want
    /\ reset
    /\ pi' = pi + 1
    /\ pcM' = "loop"
    /\ UNCHANGED notMuxVars
    /\ UNCHANGED <<cfgVars, netVars, ctlVars, pb, rerr, teeB, outVars,
                   elapsedEarly>>

(* ------------- protocol multiplexer: ProtoMux.ServeConn --------------- *)

\* ServeConn that returns without a panic when guessProtocol found nothing
ServeConnSilent ==
    /\ pcM = "guessed"
    /\ IF gi < 0
       THEN /\ pcM' = "finished"
            /\ UNCHANGED <<invoked, muxErr>>
       ELSE /\ invoked' = invoked \cup {gi}
            /\ pcM' = "serving"
            /\ UNCHANGED muxErr
    /\ UNCHANGED notMuxVars
    /\ UNCHANGED <<cfgVars, netVars, ctlVars, probeVars, teeVars, gi, head,
                   seen, claimed, elapsedEarly>>

\* if i < 0 { panic(errUnsupportedProtocol) };
\* mux.Protocols[i].ServeConn(ctx, conn)
ServeConn ==
    /\ pcM = "guessed"
    /\ IF gi < 0
       THEN /\ muxErr' = "unsupported protocol"
            /\ pcM' = "panicked"
            /\ UNCHANGED invoked
       ELSE /\ invoked' = invoked \cup {gi}
            /\ pcM' = "serving"
            /\ UNCHANGED muxErr
    /\ UNCHANGED notMuxVars
    /\ UNCHANGED <<cfgVars, netVars, ctlVars, probeVars, teeVars, gi, head,
                   seen, claimed, elapsedEarly>>

\* the chosen handler calls Read on its connection with a buffer of k bytes:
\* protoConn.Read hands out the head first, then reads the connection; the
\* handler returns on a read error
protoConnRead(k) ==
    /\ pcM = "serving"
    /\ IF Len(head) # 0
       THEN LET n == IF Len(head) > k THEN k ELSE Len(head)
            IN  /\ seen' = seen \o SubSeq(head, 1, n)
                /\ head' = SubSeq(head, n + 1, Len(head))
                /\ UNCHANGED <<rpos, pcM>>
       ELSE /\ ConnReadable
            /\ LET n == ConnReadN(k)
               IN  /\ seen' = seen \o SubSeq(sent, rpos + 1, rpos + n)
                   /\ rpos' = rpos + n
            /\ pcM' = IF ConnReadErr = "none" THEN pcM ELSE "finished"
            /\ UNCHANGED head
    /\ UNCHANGED notMuxVars
    /\ UNCHANGED <<cfgVars, arrived, peerClosed, muxConnClosed, deadline,
                   ctlVars, probeVars, teeVars, gi, claimed, invoked, muxErr,
                   elapsedEarly>>

\* the chosen handler returns, and ServeConn with it
HandlerReturn ==
    /\ pcM = "serving"
    /\ pcM' = "finished"
    /\ UNCHANGED notMuxVars
    /\ UNCHANGED <<cfgVars, netVars, ctlVars, probeVars, teeVars, outVars,
                   elapsedEarly>>

(* ------ readiness poller: filePoller (error.go, poll_kqueue.go) ------- *)

Regs == 1..MaxRegs

\* the descriptor numbers the operating system hands out: two, so that a
\* number is free again only after a file of the poller was closed
FDs == {1, 2}

\* the registrations ServeTunnel makes, and those of other users
TunnelRegs == {1, 2}
OtherRegs == Regs \ TunnelRegs

\* the registrations that users other than ServeTunnel make.  ServeTunnel
\* passes connections to PollRead, which the filePoller of part_032, made for
\* files, does not take: there its second registration is a user's too
Users == IF pollRev = "chan" THEN Regs \ {1} ELSE OtherRegs

\* file.close without the test of fp.f: the channel is closed anew by every
\* call
fileCloseUnguarded(r) ==
    /\ chCloses' = [chCloses EXCEPT ![r] = @ + 1]
    /\ regOpen' = [regOpen EXCEPT ![r] = FALSE]
    /\ fdOpen' = IF regOpen[r] THEN [fdOpen EXCEPT ![regFd[r]] = FALSE]
                 ELSE fdOpen
    /\ armed' = IF regOpen[r] THEN [armed EXCEPT ![regFd[r]] = FALSE]
                ELSE armed

\* func (fp *file) close(p *filePoller), under fp.m: if fp.f != nil, the
\* descriptor leaves the kernel's set, the file is closed, fp.f = nil and
\* close(fp.c)
fileClose(r) ==
    IF regOpen[r]
    THEN /\ armed' = [armed EXCEPT ![regFd[r]] = FALSE]
         /\ fdOpen' = [fdOpen EXCEPT ![regFd[r]] = FALSE]
         /\ regOpen' = [regOpen EXCEPT ![r] = FALSE]
         /\ chCloses' = [chCloses EXCEPT ![r] = @ + 1]
    ELSE UNCHANGED <<armed, fdOpen, regOpen, chCloses>>

\* the first half of the cancel function of registration r:
\* p.mutex.Lock(); delete(p.files, fd); p.mutex.Unlock()
cancelDelete(r) ==
    /\ files' = [files EXCEPT ![regFd[r]] = 0]
    /\ cancelled' = [cancelled EXCEPT ![r] = TRUE]
    /\ stolen' = IF files[regFd[r]] \notin {0, r}
                 THEN stolen \cup {files[regFd[r]]}
                 ELSE stolen

\* filePoller.register succeeds for registration r: conn.File() gives a
\* descriptor with the free number fd, p.files[fd] = fp, and the descriptor
\* joins the kernel's set
register(r, fd) ==
    /\ regFd[r] = 0
    /\ ~fdOpen[fd]
    /\ regFd' = [regFd EXCEPT ![r] = fd]
    /\ regOpen' = [regOpen EXCEPT ![r] = TRUE]
    /\ fdOpen' = [fdOpen EXCEPT ![fd] = TRUE]
    /\ files' = [files EXCEPT ![fd] = r]
    /\ armed' = [armed EXCEPT ![fd] = TRUE]

\* filePoller.register fails for registration r, epollCtl / kevent returning
\* an error: cancel() undoes it (the entry is deleted, the file and the
\* channel are closed) and no cancel function is returned
registerFail(r, fd) ==
    /\ regFd[r] = 0
    /\ ~fdOpen[fd]
    /\ regFd' = [regFd EXCEPT ![r] = fd]
    /\ files' = [files EXCEPT ![fd] = 0]
    /\ chCloses' = [chCloses EXCEPT ![r] = 1]
    /\ UNCHANGED <<regOpen, fdOpen, armed, stolen>>

\* the dispatcher goroutine: EpollWait / Kevent returns an event for a
\* descriptor of the kernel's set, whose connection got data or was closed by
\* its peer (EPOLLONESHOT: the descriptor does not fire again)
dispatchWait ==
    /\ pcD = "wait"
    /\ \E fd \in FDs :
          /\ armed[fd]
          /\ \E r \in Regs : regFd[r] = fd /\ regOpen[r]
          /\ dFd' = fd
          /\ armed' = [armed EXCEPT ![fd] = FALSE]
    /\ pcD' = "lookup"
    /\ UNCHANGED <<notPollVars, pollRev>>
    /\ UNCHANGED <<fdOpen, files, regVars, dFp, tunVars, stolen>>

\* p.mutex.Lock(); fp := p.files[fd]; delete(p.files, fd); p.mutex.Unlock()
dispatchLookup ==
    /\ pollRev = "file"
    /\ pcD = "lookup"
    /\ dFp' = files[dFd]
    /\ files' = [files EXCEPT ![dFd] = 0]
    /\ pcD' = IF files[dFd] # 0 THEN "close" ELSE "wait"
    /\ UNCHANGED <<notPollVars, pollRev>>
    /\ UNCHANGED <<kernelVars, regVars, dFd, tunVars, stolen>>

\* if fp != nil { fp.close(p) }
dispatchClose ==
    /\ pcD = "close"
    /\ fileClose(dFp)
    /\ dFp' = 0
    /\ pcD' = "wait"
    /\ UNCHANGED <<notPollVars, pollRev>>
    /\ UNCHANGED <<files, regFd, cancelled, cancelMid, dFd, tunVars,
                   stolen>>

\* another user of the poller registers a connection
OtherRegister(r) ==
    /\ pcD # "idle"
    /\ r \in Users
    /\ \E fd \in FDs : register(r, fd)
    /\ UNCHANGED <<notPollVars, pollRev>>
    /\ UNCHANGED <<chCloses, cancelled, cancelMid, dispVars, tunVars,
                   stolen>>

\* another user calls the cancel function of its registration: first half
OtherCancelDelete(r) ==
    /\ pollRev = "file"
    /\ r \in Users
    /\ regFd[r] # 0
    /\ cancelMid[r] = 0
    /\ cancelDelete(r)
    /\ cancelMid' = [cancelMid EXCEPT ![r] = @ + 1]
    /\ UNCHANGED <<notPollVars, pollRev>>
    /\ UNCHANGED <<kernelVars, regFd, regOpen, chCloses, dispVars, tunVars>>

\* the second half of that call: fp.close(p)
OtherCancelClose(r) ==
    /\ pollRev = "file"
    /\ r \in Users
    /\ cancelMid[r] > 0
    /\ fileClose(r)
    /\ cancelMid' = [cancelMid EXCEPT ![r] = @ - 1]
    /\ UNCHANGED <<notPollVars, pollRev>>
    /\ UNCHANGED <<files, regFd, cancelled, dispVars, tunVars,
                   stolen>>

(* ------------- readiness poller: filePoller of part_032 --------------- *)

\* the dispatcher, under p.mutex: ch := p.files[fd]; delete(p.files, fd);
\* if ch != nil { close(ch) }
chanDispatch ==
    /\ pollRev = "chan"
    /\ pcD = "lookup"
    /\ files' = [files EXCEPT ![dFd] = 0]
    /\ chCloses' = IF files[dFd] # 0
                   THEN [chCloses EXCEPT ![files[dFd]] = @ + 1]
                   ELSE chCloses
    /\ pcD' = "wait"
    /\ UNCHANGED <<notPollVars, pollRev>>
    /\ UNCHANGED <<kernelVars, regFd, regOpen, cancelled, cancelMid, dFd, dFp,
                   tunVars, stolen>>

\* the cancel function of registration r, first half:
\* epollCtl(p.fd, syscall.EPOLL_CTL_DEL, fd, nil)
chanCancelCtl(r) ==
    /\ pollRev = "chan"
    /\ regFd[r] # 0
    /\ cancelMid[r] = 0
    /\ armed' = [armed EXCEPT ![regFd[r]] = FALSE]
    /\ cancelled' = [cancelled EXCEPT ![r] = TRUE]
    /\ cancelMid' = [cancelMid EXCEPT ![r] = @ + 1]
    /\ UNCHANGED <<notPollVars, pollRev>>
    /\ UNCHANGED <<fdOpen, files, regFd, regOpen, chCloses,
                   dispVars, tunVars, stolen>>

\* its second half: p.mutex.Lock(); delete(p.files, fd); p.mutex.Unlock()
chanCancelDelete(r) ==
    /\ pollRev = "chan"
    /\ cancelMid[r] > 0
    /\ files' = [files EXCEPT ![regFd[r]] = 0]
    /\ stolen' = IF files[regFd[r]] \notin {0, r}
                 THEN stolen \cup {files[regFd[r]]}
                 ELSE stolen
    /\ cancelMid' = [cancelMid EXCEPT ![r] = @ - 1]
    /\ UNCHANGED <<notPollVars, pollRev>>
    /\ UNCHANGED <<kernelVars, regFd, regOpen, chCloses, cancelled, dispVars,
                   tunVars>>

\* the user closes the file it registered (the poller of part_032 leaves the
\* file to its caller); the kernel drops a closed descriptor from its set
UserClose(r) ==
    /\ pollRev = "chan"
    /\ regOpen[r]
    /\ regOpen' = [regOpen EXCEPT ![r] = FALSE]
    /\ fdOpen' = [fdOpen EXCEPT ![regFd[r]] = FALSE]
    /\ armed' = [armed EXCEPT ![regFd[r]] = FALSE]
    /\ UNCHANGED <<notPollVars, pollRev>>
    /\ UNCHANGED <<files, regFd, chCloses, cancelled, cancelMid,
                   dispVars, tunVars, stolen>>

(* ------------- TunnelProtoMux.ServeTunnel (part_035) ------------------ *)

\* the ctx of ServeTunnel is cancelled, or its ReadTimeout passes
TunnelCtxCancel ==
    /\ pcT \notin {"idle", "done"}
    /\ ~tCtxDone
    /\ tCtxDone' = TRUE
    /\ UNCHANGED <<notPollVars, pollRev>>
    /\ UNCHANGED <<kernelVars, files, regVars, dispVars, pcT, tMid, tSide,
                   tOut, stolen>>

\* ready1, cancel1, err = PollRead(from); an error panics, with no cancel
\* function deferred yet; else defer cancel1()
ServeTunnelPoll1 ==
    /\ pcT = "poll1"
    /\ \E fd \in FDs :
          \/ /\ register(1, fd)
             /\ pcT' = "poll2"
             /\ UNCHANGED <<chCloses, stolen, tOut>>
          \/ /\ registerFail(1, fd)
             /\ tOut' = "panicked"
             /\ pcT' = "done"
    /\ UNCHANGED <<notPollVars, pollRev>>
    /\ UNCHANGED <<cancelled, cancelMid, dispVars, tMid, tSide,
                   tCtxDone>>

\* ready2, cancel2, err = PollRead(to); an error panics and the deferred
\* cancel1 runs; else defer cancel2()
ServeTunnelPoll2 ==
    /\ pcT = "poll2"
    /\ \E fd \in FDs :
          \/ /\ register(2, fd)
             /\ pcT' = "select"
             /\ UNCHANGED <<chCloses, stolen, tOut>>
          \/ /\ registerFail(2, fd)
             /\ tOut' = "panicked"
             /\ pcT' = "defer1"
    /\ UNCHANGED <<notPollVars, pollRev>>
    /\ UNCHANGED <<cancelled, cancelMid, dispVars, tMid, tSide,
                   tCtxDone>>

\* select: case <-ready1 or case <-ready2; the cancel function of the other
\* side is called next
ServeTunnelReady(side) ==
    /\ pcT = "select"
    /\ chCloses[side] > 0
    /\ tSide' = side
    /\ pcT' = "cancelOther"
    /\ UNCHANGED <<notPollVars, pollRev>>
    /\ UNCHANGED <<kernelVars, files, regVars, dispVars, tMid, tCtxDone,
                   tOut, stolen>>

\* select: case <-ctx.Done(): return
ServeTunnelCtxDone ==
    /\ pcT = "select"
    /\ tCtxDone
    /\ tOut' = "returned"
    /\ pcT' = "defer2"
    /\ UNCHANGED <<notPollVars, pollRev>>
    /\ UNCHANGED <<kernelVars, files, regVars, dispVars, tMid, tSide,
                   tCtxDone, stolen>>

\* the registration whose cancel function ServeTunnel is calling: the other
\* side's after the select, then the deferred cancel2 and cancel1
CancelTarget ==
    IF pcT = "cancelOther" THEN 3 - tSide
    ELSE IF pcT = "defer2" THEN 2
    ELSE 1

\* where ServeTunnel goes on after that call
AfterCancel ==
    IF pcT = "cancelOther" THEN "guess"
    ELSE IF pcT = "defer2" THEN "defer1"
    ELSE "done"

\* ServeTunnel calls a cancel function: first half
ServeTunnelCancelDelete ==
    /\ pcT \in {"cancelOther", "defer2", "defer1"}
    /\ ~tMid
    /\ cancelDelete(CancelTarget)
    /\ tMid' = TRUE
    /\ UNCHANGED <<notPollVars, pollRev>>
    /\ UNCHANGED <<kernelVars, regFd, regOpen, chCloses, cancelMid, dispVars,
                   pcT, tSide, tCtxDone, tOut>>

\* a cancel call of ServeTunnel that does not get to fp.close(p), and ends
\* the deferred calls
ServeTunnelCancelSkipped ==
    /\ pcT \in {"cancelOther", "defer2", "defer1"}
    /\ tMid
    /\ tMid' = FALSE
    /\ pcT' = IF pcT = "cancelOther" THEN "guess" ELSE "done"
    /\ UNCHANGED <<notPollVars, pollRev>>
    /\ UNCHANGED <<kernelVars, files, regVars, dispVars, tSide, tCtxDone,
                   tOut, stolen>>

\* the second half of that call: fp.close(p)
ServeTunnelCancelClose ==
    /\ pcT \in {"cancelOther", "defer2", "defer1"}
    /\ tMid
    /\ fileClose(CancelTarget)
    /\ tMid' = FALSE
    /\ pcT' = AfterCancel
    /\ UNCHANGED <<notPollVars, pollRev>>
    /\ UNCHANGED <<files, regFd, cancelled, cancelMid, dispVars,
                   tSide, tCtxDone, tOut, stolen>>

\* i, from = guessProtocol(...) and what follows it: a panic
\* (errUnsupportedProtocol, or the handler's), or the handler's ServeTunnel
\* returning
ServeTunnelServe ==
    /\ pcT = "guess"
    /\ tOut' \in {"returned", "panicked"}
    /\ pcT' = "defer2"
    /\ UNCHANGED <<notPollVars, pollRev>>
    /\ UNCHANGED <<kernelVars, files, regVars, dispVars, tMid, tSide,
                   tCtxDone, stolen>>

(* --------------------------- specifications --------------------------- *)

(* ------------- httpx.Server: one connection, many requests ------------- *)

\* a request of the client: whether it asks to close the connection
\* (req.Close) and how many bytes of body follow its header
Requests == [close : BOOLEAN, body : 0..1]

NoReq == [close |-> FALSE, body |-> 0]

\* the values a handler gives to Content-Length (-2: not a number), -1 stands
\* for a header without the field
Lengths == {-2, 0, MaxWrite - 1}

\* server.go:73-80, the part of baseHeader that the writer looks at
baseHeader == [cl |-> -1, te |-> FALSE, close |-> FALSE]

\* server.go:85-90, the responseWriter that ServeConn makes
newResponseWriter ==
    [status |-> 0, err |-> "nil", remain |-> 0, hasBody |-> FALSE,
     chunked |-> FALSE, cwn |-> 0, header |-> baseHeader]

\* what one piece of a response is on the wire
Tok(t, n) == [t |-> t, n |-> n]

\* the writer, the bufio.Writer behind it and the connection, as one value
\* that the methods below take and give back
Out == [res |-> res, w |-> Writer, wire |-> wire]

\* server.go:533-550, the variant that writes the empty chunk too
writeChunkAlways(x, len) ==
    [x EXCEPT !.w = @ \o <<Tok("size", len), Tok("data", len), Tok("crlf", 0)>>]

\* server.go:533-550 chunkWriter.writeChunk
writeChunk(x, len) ==
    IF len = 0
    THEN x
    ELSE [x EXCEPT !.w = @ \o <<Tok("size", len), Tok("data", len), Tok("crlf", 0)>>]

\* server.go:516-531 chunkWriter.Flush (every write to the bufio.Writer
\* succeeds: the responses here are smaller than its buffer)
cwFlush(x) == [writeChunk(x, x.res.cwn) EXCEPT !.res.cwn = 0]

RECURSIVE cwWrite(_, _)
\* server.go:482-507 chunkWriter.Write, for len bytes
cwWrite(x, len) ==
    IF len = 0
    THEN x
    ELSE LET n2 == cwCap - x.res.cwn
         IN  IF len >= n2 /\ x.res.cwn = 0
             THEN writeChunk(x, len)
             ELSE LET n1 == IF len >= n2 THEN n2 ELSE len
                      y == [x EXCEPT !.res.cwn = @ + n1]
                  IN  IF len - n1 # 0
                      THEN cwWrite(cwFlush(y), len - n1)
                      ELSE y

\* server.go:509-514 chunkWriter.Close
cwClose(x) == [cwFlush(x) EXCEPT !.w = Append(@, Tok("last", 0))]

\* server.go:335-393 with a body allowed for every status from 200 on
writeHeaderFirstBody(x, s) ==
    LET status == IF s = 0 THEN 200 ELSE s
        hasBody == status >= 200
        hd == x.res.header
        r1 == [x.res EXCEPT !.status = status, !.hasBody = hasBody]
    IN  IF hasBody /\ hd.cl = -1
        THEN [x EXCEPT
                !.res = [r1 EXCEPT !.chunked = TRUE, !.cwn = 0, !.header.te = TRUE],
                !.w = @ \o <<Tok("status", status), Tok("headerChunked", 0)>>]
        ELSE IF hasBody /\ hd.cl = -2
        THEN [x EXCEPT !.res = [r1 EXCEPT !.err = "badlen"]]
        ELSE IF hasBody
        THEN [x EXCEPT
                !.res = [r1 EXCEPT !.remain = hd.cl],
                !.w = @ \o <<Tok("status", status), Tok("headerLength", hd.cl)>>]
        ELSE [x EXCEPT
                !.res = [r1 EXCEPT !.header.te = FALSE, !.header.cl = -1],
                !.w = @ \o <<Tok("status", status), Tok("headerNoBody", 0)>>]

\* server.go:335-393, WriteHeader once the status is known to be unset
writeHeaderFirst(x, s) ==
    LET status == IF s = 0 THEN 200 ELSE s
        hasBody == status >= 200 /\ status # 204 /\ status # 304
        hd == x.res.header
        r1 == [x.res EXCEPT !.status = status, !.hasBody = hasBody]
    IN  IF hasBody /\ hd.cl = -1
        THEN [x EXCEPT
                !.res = [r1 EXCEPT !.chunked = TRUE, !.cwn = 0, !.header.te = TRUE],
                !.w = @ \o <<Tok("status", status), Tok("headerChunked", 0)>>]
        ELSE IF hasBody /\ hd.cl = -2
        THEN [x EXCEPT !.res = [r1 EXCEPT !.err = "badlen"]]
        ELSE IF hasBody
        THEN [x EXCEPT
                !.res = [r1 EXCEPT !.remain = hd.cl],
                !.w = @ \o <<Tok("status", status), Tok("headerLength", hd.cl)>>]
        ELSE [x EXCEPT
                !.res = [r1 EXCEPT !.header.te = FALSE, !.header.cl = -1],
                !.w = @ \o <<Tok("status", status), Tok("headerNoBody", 0)>>]

\* server.go:329-394, the variant without the test of res.status
WriteHeaderAgain(x, s) == writeHeaderFirst(x, s)

\* server.go:329-394 responseWriter.WriteHeader
WriteHeader(x, s) ==
    IF x.res.status # 0 THEN x ELSE writeHeaderFirst(x, s)

\* server.go:399-431 without the test of res.err at 398
WriteIgnoringErr(x, len) ==
    LET y == WriteHeader(x, 0)
    IN  IF ~y.res.hasBody
        THEN y
        ELSE IF y.res.chunked
        THEN [cwWrite(y, len) EXCEPT !.res.err = "nil"]
        ELSE IF len = 0
        THEN [y EXCEPT !.res.err = "nil"]
        ELSE IF y.res.remain = 0
        THEN y
        ELSE LET n1 == Min(len, y.res.remain)
                 z == [y EXCEPT !.w = Append(@, Tok("data", n1)),
                                !.res.remain = @ - n1]
             IN  IF len - n1 # 0
                 THEN z
                 ELSE [z EXCEPT !.res.err = "nil"]

\* server.go:397-434 with all the bytes sent whatever res.remain is
WriteNoLimit(x, len) ==
    IF x.res.err # "nil"
    THEN x
    ELSE LET y == WriteHeader(x, 0)
         IN  IF ~y.res.hasBody
             THEN y
             ELSE IF y.res.chunked
             THEN [cwWrite(y, len) EXCEPT !.res.err = "nil"]
             ELSE IF len = 0
             THEN [y EXCEPT !.res.err = "nil"]
             ELSE [y EXCEPT !.w = Append(@, Tok("data", len)),
                            !.res.remain = IF @ > len THEN @ - len ELSE 0,
                            !.res.err = "nil"]

\* server.go:397-434 responseWriter.Write, for len bytes
Write(x, len) ==
    IF x.res.err # "nil"
    THEN x
    ELSE LET y == WriteHeader(x, 0)
         IN  IF ~y.res.hasBody
             THEN y
             ELSE IF y.res.chunked
             THEN [cwWrite(y, len) EXCEPT !.res.err = "nil"]
             ELSE IF len = 0
             THEN [y EXCEPT !.res.err = "nil"]
             ELSE IF y.res.remain = 0
             THEN y
             ELSE LET n1 == Min(len, y.res.remain)
                      z == [y EXCEPT !.w = Append(@, Tok("data", n1)),
                                     !.res.remain = @ - n1]
                  IN  IF len - n1 # 0
                      THEN z
                      ELSE [z EXCEPT !.res.err = "nil"]

\* server.go:397-434 responseWriter.Write: the error it returns
WriteErr(x, len) ==
    IF x.res.err # "nil"
    THEN IF x.res.err = "hijacked" THEN "ErrHijacked" ELSE x.res.err
    ELSE LET y == WriteHeader(x, 0)
         IN  IF ~y.res.hasBody
             THEN "ErrBodyNotAllowed"
             ELSE IF y.res.chunked \/ len = 0
             THEN "nil"
             ELSE IF len > y.res.remain
             THEN "ErrContentLength"
             ELSE "nil"

\* bufio.Writer.Flush on the connection
connFlush(x) ==
    IF connBroken
    THEN [x EXCEPT !.res.err = "io", !.w = <<>>]
    ELSE [x EXCEPT !.wire = @ \o x.w, !.w = <<>>]

\* server.go:437-450 responseWriter.Flush
Flush(x) ==
    IF x.res.err # "nil"
    THEN x
    ELSE LET y == WriteHeader(x, 0)
         IN  IF y.res.err # "nil"
             THEN y
             ELSE connFlush(IF y.res.chunked THEN cwFlush(y) ELSE y)

\* server.go:452-460 responseWriter.close
close(x) ==
    IF x.res.chunked
    THEN LET y == WriteHeader(x, 0)
         IN  IF y.res.err = "nil" THEN cwClose(y) ELSE y
    ELSE x

\* server.go:300-321 responseWriter.Hijack
Hijack(x) ==
    IF x.res.err # "nil"
    THEN x
    ELSE [(IF x.res.chunked THEN cwFlush(x) ELSE x) EXCEPT !.res.err = "hijacked"]

\* server.go:300-304 responseWriter.Hijack: the error it returns
HijackErr(x) ==
    IF x.res.err = "nil"
    THEN "nil"
    ELSE IF x.res.err = "hijacked" THEN "ErrHijacked" ELSE x.res.err

\* server.go:462-471 responseWriter.reset
responseWriterReset(r) ==
    [r EXCEPT !.remain = 0, !.hasBody = FALSE, !.chunked = FALSE, !.cwn = 0,
              !.header = baseHeader]

\* the three variables a method of the writer changes
SetOut(x) ==
    /\ res' = x.res
    /\ Writer' = x.w
    /\ wire' = x.wire

\* history: the writer has met an error (lost connection, Hijack, bad
\* Content-Length)
NoteErr(x) == excused' = (excused \/ x.res.err # "nil")

HttpRunning == pcH \notin {"idle", "done", "crashed"}

\* the server looks at the socket in waitReadyRead and readRequest only:
\* what arrives while a handler runs is seen there, and is placed there
AtSocket == pcH \in {"wait", "read"}

\* the client writes one more request; it reaches the socket buffer whole
ClientSend(q) ==
    /\ AtSocket
    /\ ~eof
    /\ nsent < MaxReqs
    /\ nsent' = nsent + 1
    /\ sock' = Append(sock, q)
    /\ excused' = (excused \/ q.close)
    /\ UNCHANGED <<hasFile, Reader, eof, connBroken, srvHVars,
                   resVars, answered, responded>>
    /\ UNCHANGED notHttpVars

\* the client closes its side for writing
ClientShutdown ==
    /\ AtSocket
    /\ ~eof
    /\ eof' = TRUE
    /\ UNCHANGED <<hasFile, nsent, sock, Reader, connBroken,
                   srvHVars, resVars, histHVars>>
    /\ UNCHANGED notHttpVars

\* the connection is lost: what the server flushes from now on fails
ConnBreak ==
    /\ HttpRunning
    /\ ~connBroken
    /\ connBroken' = TRUE
    /\ excused' = TRUE
    /\ UNCHANGED <<hasFile, nsent, sock, Reader, eof, srvHVars,
                   resVars, answered, responded>>
    /\ UNCHANGED notHttpVars

\* poll.go:46-70 waitRead sees the descriptor readable (bytes in the socket
\* buffer, or the end of the stream); poll.go:16-42 pollRead peeks one byte
\* of the bufio.Reader, which reads the socket when it is empty
ReadyRead ==
    IF hasFile
    THEN sock # <<>> \/ eof
    ELSE Reader # <<>> \/ sock # <<>>

\* server.go:241-248 waitReadyRead returns nil (server.go:97)
waitReadyRead ==
    /\ pcH = "wait"
    /\ ReadyRead
    /\ pcH' = "read"
    /\ IF ~hasFile /\ Reader = <<>>
       THEN Reader' = sock /\ sock' = <<>>
       ELSE UNCHANGED <<Reader, sock>>
    /\ UNCHANGED <<hasFile, nsent, eof, connBroken, req, closed,
                   bodyLeft, nreq, scClosed, resVars, histHVars>>
    /\ UNCHANGED notHttpVars

\* server.go:97-99 waitReadyRead returns an error while nothing is ready:
\* the timer of a Server with an IdleTimeout fired, ctx is done, or pollRead
\* met the end of the stream;
\* ServeConn returns and its deferred sc.Close runs
waitReadyReadFail(cause) ==
    /\ pcH = "wait"
    /\ ~ReadyRead
    /\ \/ cause = "timeout"
       \/ cause = "ctx"
       \/ cause = "eof" /\ ~hasFile /\ eof
    /\ pcH' = "done"
    /\ scClosed' = TRUE
    /\ excused' = (excused \/ cause = "ctx")
    /\ UNCHANGED <<hasFile, nsent, sock, Reader, eof, connBroken,
                   req, closed, bodyLeft, nreq, resVars, answered, responded>>
    /\ UNCHANGED notHttpVars

\* server.go:250-280 readRequest and server.go:100-111: http.ReadRequest
\* takes the next request of the bufio.Reader, which first reads all that
\* the socket holds when it is empty
readRequest ==
    /\ pcH = "read"
    /\ Reader # <<>> \/ sock # <<>>
    /\ LET buf == IF Reader = <<>> THEN sock ELSE Reader
       IN  /\ req' = Head(buf)
           /\ closed' = Head(buf).close
           /\ bodyLeft' = Head(buf).body
           /\ Reader' = Tail(buf)
           /\ sock' = IF Reader = <<>> THEN <<>> ELSE sock
           /\ res' = [res EXCEPT !.header.close = Head(buf).close]
    /\ nreq' = nreq + 1
    /\ pcH' = "serve"
    /\ wire' = <<>>
    /\ ops' = 0
    /\ whAgain' = FALSE
    /\ werr' = "nil"
    /\ UNCHANGED <<hasFile, nsent, eof, connBroken, Writer, scClosed,
                   histHVars>>
    /\ UNCHANGED notHttpVars

\* server.go:98-100 http.ReadRequest meets the end of the stream
readRequestEOF ==
    /\ pcH = "read"
    /\ Reader = <<>> /\ sock = <<>> /\ eof
    /\ pcH' = "done"
    /\ scClosed' = TRUE
    /\ UNCHANGED <<hasFile, nsent, sock, Reader, eof, connBroken,
                   req, closed, bodyLeft, nreq, resVars, histHVars>>
    /\ UNCHANGED notHttpVars

\* what a step of the handler leaves alone
HandlerStep ==
    /\ pcH = "serve"
    /\ ops < MaxOps
    /\ ops' = ops + 1
    /\ UNCHANGED <<hasFile, nsent, sock, Reader, eof, connBroken,
                   req, closed, nreq, pcH, scClosed, answered, responded>>
    /\ UNCHANGED notHttpVars

\* the handler sets Content-Length in w.Header() (server.go:324-326)
HandlerSetLength(v) ==
    /\ HandlerStep
    /\ res.status = 0
    /\ res' = [res EXCEPT !.header.cl = v]
    /\ excused' = (excused \/ v = -2)
    /\ UNCHANGED <<Writer, wire, bodyLeft, whAgain, werr>>

\* server.go:343-382: after Hijack res.conn is nil, and WriteHeader with no
\* status set yet goes on to c.Write(b) on it, unless it returns before
\* on a bad Content-Length (res.timeout being 0, c is not used before)
WriteHeaderOnNil(x, s) ==
    /\ x.res.err = "hijacked"
    /\ x.res.status = 0
    /\ writeHeaderFirst(x, s).res.err # "badlen"

\* the handler calls w.WriteHeader(s)
HandlerWriteHeader(s) ==
    /\ HandlerStep
    /\ ~WriteHeaderOnNil(Out, s)
    /\ SetOut(WriteHeader(Out, s))
    /\ NoteErr(WriteHeader(Out, s))
    /\ whAgain' = (whAgain \/ res.status # 0)
    /\ werr' = "nil"
    /\ UNCHANGED bodyLeft

\* the handler calls w.WriteHeader(s) after w.Hijack() with no status set:
\* the call panics on the nil res.conn with res.status set, and the deferred
\* function of serveHTTP (server.go:164-180) sets req.Close and returns
HandlerWriteHeaderNil(s) ==
    /\ pcH = "serve"
    /\ ops < MaxOps
    /\ WriteHeaderOnNil(Out, s)
    /\ ops' = ops + 1
    /\ res' = writeHeaderFirst(Out, s).res
    /\ werr' = "panic"
    /\ req' = [req EXCEPT !.close = TRUE]
    /\ pcH' = "served"
    /\ responded' = Append(responded, nreq)
    /\ excused' = TRUE
    /\ UNCHANGED <<hasFile, nsent, sock, Reader, eof, connBroken, closed,
                   bodyLeft, nreq, scClosed, Writer, wire, whAgain, answered>>
    /\ UNCHANGED notHttpVars

\* the handler calls w.Write with len bytes
HandlerWrite(len) ==
    /\ HandlerStep
    /\ SetOut(Write(Out, len))
    /\ NoteErr(Write(Out, len))
    /\ werr' = WriteErr(Out, len)
    /\ UNCHANGED <<bodyLeft, whAgain>>

\* the handler calls w.Flush()
HandlerFlush ==
    /\ HandlerStep
    /\ SetOut(Flush(Out))
    /\ NoteErr(Flush(Out))
    /\ werr' = "nil"
    /\ UNCHANGED <<bodyLeft, whAgain>>

\* the handler calls w.Hijack()
HandlerHijack ==
    /\ HandlerStep
    /\ SetOut(Hijack(Out))
    /\ NoteErr(Hijack(Out))
    /\ werr' = HijackErr(Out)
    /\ UNCHANGED <<bodyLeft, whAgain>>

\* the handler reads the body of the request
HandlerReadBody ==
    /\ HandlerStep
    /\ bodyLeft # 0
    /\ bodyLeft' = 0
    /\ UNCHANGED <<res, Writer, wire, whAgain, werr, excused>>

\* the history of a request that serveHTTP has finished with
Finished(x) ==
    /\ responded' = Append(responded, nreq)
    /\ answered' = IF \E i \in 1..Len(x.wire) : x.wire[i].t = "status"
                   THEN answered \cup {nreq}
                   ELSE answered

\* server.go:163-185, 201: the handler returns and the deferred function
\* runs res.close() and res.Flush()
serveHTTPReturn ==
    /\ pcH = "serve"
    /\ LET x == Flush(close(Out))
       IN  SetOut(x) /\ Finished(x) /\ NoteErr(x)
    /\ pcH' = "served"
    /\ UNCHANGED <<hasFile, nsent, sock, Reader, eof, connBroken,
                   req, closed, bodyLeft, nreq, scClosed, ops, whAgain, werr>>
    /\ UNCHANGED notHttpVars

\* server.go:163-185: the handler panics; with no status written yet the
\* deferred function answers 500, otherwise it sets req.Close and returns.
\* After Hijack res.conn is nil and WriteHeader panics in its turn.
serveHTTPPanic ==
    /\ pcH = "serve"
    /\ IF WriteHeaderOnNil(Out, 500)
       THEN /\ pcH' = "crashed"
            /\ scClosed' = TRUE
            /\ UNCHANGED <<req, res, Writer, wire, ops, whAgain, answered,
                           responded>>
       ELSE IF res.status = 0
       THEN /\ LET x == Flush(close(WriteHeader(Out, 500)))
               IN  SetOut(x) /\ Finished(x)
            /\ pcH' = "served"
            /\ UNCHANGED <<req, ops, whAgain, scClosed>>
       ELSE /\ req' = [req EXCEPT !.close = TRUE]
            /\ pcH' = "served"
            /\ Finished(Out)
            /\ UNCHANGED <<res, Writer, wire, ops, whAgain, scClosed>>
    /\ werr' = "panic"
    /\ excused' = TRUE
    /\ UNCHANGED <<hasFile, nsent, sock, Reader, eof, connBroken,
                   closed, bodyLeft, nreq>>
    /\ UNCHANGED notHttpVars

\* the variables of one request, once ServeConn is done with it
RequestOver ==
    /\ req' = NoReq
    /\ closed' = FALSE
    /\ wire' = <<>>
    /\ ops' = 0
    /\ whAgain' = FALSE
    /\ werr' = "nil"

\* server.go:115-127 without netx.Copy(ioutil.Discard, req.Body)
ServeConnNextNoDrain ==
    /\ pcH = "served"
    /\ IF res.err # "nil" \/ closed \/ req.close
       THEN /\ pcH' = "done"
            /\ scClosed' = TRUE
            /\ UNCHANGED res
       ELSE /\ pcH' = "wait"
            /\ res' = responseWriterReset(res)
            /\ UNCHANGED scClosed
    /\ RequestOver
    /\ UNCHANGED <<hasFile, nsent, sock, Reader, eof, connBroken, bodyLeft,
                   nreq, Writer, histHVars>>
    /\ UNCHANGED notHttpVars

\* server.go:115-127 without the test of closed and req.Close (120-122)
ServeConnNextKeepAlive ==
    /\ pcH = "served"
    /\ IF res.err # "nil"
       THEN /\ pcH' = "done"
            /\ scClosed' = TRUE
            /\ UNCHANGED <<res, bodyLeft>>
       ELSE /\ pcH' = "wait"
            /\ bodyLeft' = 0
            /\ res' = responseWriterReset(res)
            /\ UNCHANGED scClosed
    /\ RequestOver
    /\ UNCHANGED <<hasFile, nsent, sock, Reader, eof, connBroken, nreq,
                   Writer, histHVars>>
    /\ UNCHANGED notHttpVars

\* server.go:115-127: ServeConn after serveHTTP: it returns on an error of
\* the writer or when the connection is to be closed, otherwise it reads
\* the rest of the body, resets the writer and loops
ServeConnNext ==
    /\ pcH = "served"
    /\ IF res.err # "nil" \/ closed \/ req.close
       THEN /\ pcH' = "done"
            /\ scClosed' = TRUE
            /\ UNCHANGED <<res, bodyLeft>>
       ELSE /\ pcH' = "wait"
            /\ bodyLeft' = 0
            /\ res' = responseWriterReset(res)
            /\ UNCHANGED scClosed
    /\ RequestOver
    /\ UNCHANGED <<hasFile, nsent, sock, Reader, eof, connBroken, nreq,
                   Writer, histHVars>>
    /\ UNCHANGED notHttpVars

(* ---------------- httpx.chunkWriter, byte by byte ----------------------- *)

\* calls made on one chunkWriter
MaxCalls == MaxOps + 2

\* server.go:475-480, a chunkWriter with nothing buffered
newChunkWriter == [b |-> <<>>, out |-> <<>>, ret |-> 0]

\* server.go:533-550 chunkWriter.writeChunk: the hex length and the data
chunkWriterWriteChunk(c, b) ==
    IF Len(b) = 0
    THEN c
    ELSE [c EXCEPT !.out = Append(@, [size |-> Len(b), data |-> b])]

\* server.go:516-531 chunkWriter.Flush
chunkWriterFlush(c) == [chunkWriterWriteChunk(c, c.b) EXCEPT !.b = <<>>]

RECURSIVE chunkWriterWrite(_, _, _)
\* server.go:482-507 with the large chunk written past the buffer whether
\* bytes are buffered or not
chunkWriterWriteNoTest(c, b, n) ==
    IF Len(b) = 0
    THEN [c EXCEPT !.ret = n]
    ELSE LET n2 == cwCap - Len(c.b)
         IN  IF Len(b) >= n2
             THEN [chunkWriterWriteChunk(c, b) EXCEPT !.ret = Len(b)]
             ELSE [c EXCEPT !.b = @ \o b, !.ret = n + Len(b)]

\* server.go:482-507 chunkWriter.Write of the bytes b, n bytes of the call
\* being taken already
chunkWriterWrite(c, b, n) ==
    IF Len(b) = 0
    THEN [c EXCEPT !.ret = n]
    ELSE LET n2 == cwCap - Len(c.b)
         IN  IF Len(b) >= n2 /\ Len(c.b) = 0
             THEN [chunkWriterWriteChunk(c, b) EXCEPT !.ret = Len(b)]
             ELSE LET n1 == IF Len(b) >= n2 THEN n2 ELSE Len(b)
                      c1 == [c EXCEPT !.b = @ \o SubSeq(b, 1, n1)]
                      rest == SubSeq(b, n1 + 1, Len(b))
                  IN  IF Len(rest) # 0
                      THEN chunkWriterWrite(chunkWriterFlush(c1), rest, n + n1)
                      ELSE [c1 EXCEPT !.ret = n + n1]

\* server.go:509-514 chunkWriter.Close
chunkWriterClose(c) ==
    [chunkWriterFlush(c) EXCEPT !.out = Append(@, [size |-> 0, data |-> <<>>])]

\* the fields of the chunkWriter in cw
TheWriter == [b |-> cw.b, out |-> cw.out, ret |-> cw.ret]

\* cw after a method of the chunkWriter has run
Called(c) ==
    [b |-> c.b, out |-> c.out, ret |-> c.ret, in |-> cw.in,
     calls |-> cw.calls + 1, closed |-> cw.closed, last |-> cw.last]

\* the caller writes len more bytes, each one different from all others
ChunkWrite(len) ==
    /\ cw.calls < MaxCalls
    /\ ~cw.closed
    /\ LET b == [i \in 1..len |-> Len(cw.in) + i]
       IN  cw' = [Called(chunkWriterWrite(TheWriter, b, 0)) EXCEPT
                    !.in = @ \o b, !.last = len]
    /\ UNCHANGED notChunkVars

\* the caller flushes
ChunkFlush ==
    /\ cw.calls < MaxCalls
    /\ ~cw.closed
    /\ cw' = Called(chunkWriterFlush(TheWriter))
    /\ UNCHANGED notChunkVars

\* the response ends
ChunkClose ==
    /\ cw.calls > 0
    /\ ~cw.closed
    /\ cw' = [Called(chunkWriterClose(TheWriter)) EXCEPT !.closed = TRUE]
    /\ UNCHANGED notChunkVars

\* a chunkWriter that nothing uses
\* what the variable of a part holds while the part is not in use
NotInUse == [pc |-> "idle"]

ChunkIdle == cw = NotInUse

(* ------------- the header limit of serverConn.readRequest -------------- *)

\* s.MaxHeaderBytes, in bytes (server.go:68-71), scaled down
maxHeaderBytes == 2

\* the lengths of the request lines plus headers a client sends
HeaderLens == 1..(maxHeaderBytes + 1)

\* the size of the bufio.Reader of serverConn (server.go:216), 4096 bytes in
\* the source: here it holds all a client sends
bufSize == MaxReqs * (maxHeaderBytes + 1)

RECURSIVE SumLens(_)
SumLens(s) == IF s = <<>> THEN 0 ELSE Head(s) + SumLens(Tail(s))

\* conn.go:128-150 connReader.Read into a slice of n1 bytes, the connection
\* having k bytes to give: the bytes read, the error and the limit left
connReaderRead(limit, n1, k) ==
    IF limit = 0
    THEN [n |-> 0, err |-> "EOF", limit |-> 0]
    ELSE LET n2 == limit
             m == IF n2 > 0 /\ n1 > n2 THEN n2 ELSE n1
             n == Min(m, k)
         IN  [n |-> n, err |-> "nil",
              limit |-> IF n > 0 /\ n2 > 0 THEN limit - n ELSE limit]

\* bufio.Reader.fill: one Read of the connReader into the free part of the
\* buffer, the connection having k bytes to give
Fill(k) ==
    LET r == connReaderRead(hp.limit, bufSize - hp.buf, k)
    IN  [hp EXCEPT !.buf = @ + r.n, !.net = @ - r.n, !.limit = r.limit]

\* server.go:241-248 serverConn.waitReadyRead: with a file waitRead returns
\* when the connection is readable; without one pollRead calls r.Peek(1)
\* (poll.go:24), which fills the buffer when it is empty
LimitWaitReadyRead ==
    /\ hp.pc = "wait"
    /\ IF hp.file
       THEN hp.net > 0 /\ hp' = [hp EXCEPT !.pc = "read"]
       ELSE IF hp.buf > 0
       THEN hp' = [hp EXCEPT !.pc = "read"]
       ELSE /\ hp.net > 0
            /\ \E k \in 1..hp.net : hp' = [Fill(k) EXCEPT !.pc = "read"]
    /\ UNCHANGED notLimitVars

\* server.go:250-260 readRequest sets the limit and calls http.ReadRequest
LimitReadRequest ==
    /\ hp.pc = "read"
    /\ hp' = [hp EXCEPT !.limit = maxHeaderBytes, !.n = @ + 1, !.given = 0,
                        !.pc = "parse"]
    /\ UNCHANGED notLimitVars

\* http.ReadRequest takes from the bufio.Reader the bytes it holds, up to
\* the end of the header; with the header complete readRequest drops the
\* limit and returns the request (server.go:260-278), which is served
LimitParse ==
    /\ hp.pc = "parse"
    /\ hp.buf > 0
    /\ LET k == Min(hp.buf, hp.lens[hp.n] - hp.given)
           whole == hp.given + k = hp.lens[hp.n]
       IN  hp' = [hp EXCEPT !.buf = @ - k, !.given = @ + k,
                            !.limit = IF whole THEN -1 ELSE @,
                            !.pc = IF whole THEN "serve" ELSE "parse"]
    /\ UNCHANGED notLimitVars

\* http.ReadRequest needs more bytes than the bufio.Reader holds: the
\* bufio.Reader reads from the connReader
LimitFill ==
    /\ hp.pc = "parse"
    /\ hp.buf = 0
    /\ hp.limit # 0
    /\ hp.net > 0
    /\ \E k \in 1..hp.net : hp' = Fill(k)
    /\ UNCHANGED notLimitVars

\* conn.go:129-132: the limit is used up, the connReader returns io.EOF,
\* http.ReadRequest fails and ServeConn returns (server.go:100-102)
LimitFillEOF ==
    /\ hp.pc = "parse"
    /\ hp.buf = 0
    /\ hp.limit = 0
    /\ hp' = [hp EXCEPT !.pc = "failed"]
    /\ UNCHANGED notLimitVars

\* server.go:115-127: the request is served and ServeConn loops
LimitServed ==
    /\ hp.pc = "serve"
    /\ hp' = [hp EXCEPT !.pc = IF hp.n < Len(hp.lens) THEN "wait" ELSE "done"]
    /\ UNCHANGED notLimitVars

\* no connection
LimitIdle == hp = NotInUse

(* ------------- serverConn.waitReadyRead against the clock -------------- *)

\* the seconds the clock runs for
MaxTime == 4

\* the values of s.IdleTimeout, in seconds
Timeouts == 0..(MaxTime - 1)

\* wt with the call returned
Returned(e) == [wt EXCEPT !.pc = "returned", !.result = e]

WaitRunning == wt.pc \notin {"idle", "returned"}

\* server.go:241-248 waitReadyRead calls waitRead with a file (poll.go:46-59:
\* the timer, when timeout is not 0, and netx.PollRead) and pollRead
\* without one (poll.go:17-21: the deadline and the first read deadline)
WaitStart ==
    /\ wt.pc = "start"
    /\ wt' = [wt EXCEPT !.until = wt.now + wt.timeout,
                        !.rd = IF wt.file THEN @ ELSE wt.now + 1,
                        !.pc = IF wt.file THEN "wait" ELSE "peek"]
    /\ UNCHANGED notWaitVars

\* poll.go:23-25: r.Peek(1) has a byte
PollPeekData ==
    /\ wt.pc = "peek"
    /\ wt.data = "bytes"
    /\ wt' = Returned("nil")
    /\ UNCHANGED notWaitVars

\* poll.go:27-29: r.Peek(1) fails because the peer has closed
PollPeekEOF ==
    /\ wt.pc = "peek"
    /\ wt.data = "eof"
    /\ wt' = Returned("eof")
    /\ UNCHANGED notWaitVars

\* poll.go:21-27: r.Peek(1) fails with a timeout at the read deadline
PollPeekTimeout ==
    /\ wt.pc = "peek"
    /\ wt.data = "none"
    /\ wt.now >= wt.rd
    /\ wt' = [wt EXCEPT !.pc = "check"]
    /\ UNCHANGED notWaitVars

\* poll.go:31-34: if deadline.After(time.Now())
PollCheckDeadline ==
    /\ wt.pc = "check"
    /\ wt' = IF wt.until > wt.now
             THEN Returned("timeout")
             ELSE [wt EXCEPT !.pc = "select"]
    /\ UNCHANGED notWaitVars

\* poll.go:36-40 and 20-21: the select on ctx.Done(), which returns the
\* error of Peek, and the next turn of the loop
PollSelect ==
    /\ wt.pc = "select"
    /\ wt' = IF wt.ctx
             THEN Returned("cancelled")
             ELSE [wt EXCEPT !.pc = "peek", !.rd = wt.now + 1]
    /\ UNCHANGED notWaitVars

\* poll.go:63-64: case <-ready
WaitReady ==
    /\ wt.pc = "wait"
    /\ wt.data # "none"
    /\ wt' = Returned("nil")
    /\ UNCHANGED notWaitVars

\* poll.go:52-56, 65-66: case <-timec, the timer set when timeout != 0
WaitTimer ==
    /\ wt.pc = "wait"
    /\ wt.timeout # 0
    /\ wt.now >= wt.until
    /\ wt' = Returned("timeout")
    /\ UNCHANGED notWaitVars

\* poll.go:67-68: case <-ctx.Done()
WaitCancel ==
    /\ wt.pc = "wait"
    /\ wt.ctx
    /\ wt' = Returned("cancelled")
    /\ UNCHANGED notWaitVars

\* the peer sends bytes or closes the connection
WaitPeer(d) ==
    /\ WaitRunning
    /\ wt.data = "none"
    /\ wt' = [wt EXCEPT !.data = d]
    /\ UNCHANGED notWaitVars

\* the context of ServeConn is cancelled
WaitCtxCancel ==
    /\ WaitRunning
    /\ ~wt.ctx
    /\ wt' = [wt EXCEPT !.ctx = TRUE]
    /\ UNCHANGED notWaitVars

\* a second passes while the call is blocked in Peek or in the select of
\* waitRead, no timer being due
WaitTick ==
    /\ wt.now < MaxTime
    /\ \/ wt.pc = "peek" /\ wt.now < wt.rd
       \/ wt.pc = "wait" /\ (wt.timeout = 0 \/ wt.now < wt.until)
    /\ wt' = [wt EXCEPT !.now = @ + 1]
    /\ UNCHANGED notWaitVars

\* no call of waitReadyRead
WaitIdle == wt = NotInUse

\* ---- TunnelProtoMux.ServeTunnel and its ReadTimeout ----

Sides == {"from", "to"}

\* the context ServeTunnel works with from its first statement on: made by
\* context.WithTimeout when ReadTimeout is not zero, so it is done when the
\* parent is, when the timer fired, or when the deferred cancel ran
TmuxCtxDone(t) ==
    \/ t.parent
    \/ t.timed /\ (t.fired \/ t.pc \in {"done", "panic"})

TmuxRunning == tm.pc \in {"select", "guess", "handler"}

\* the timer of context.WithTimeout fires, ReadTimeout after the call began
TmuxTimer ==
    /\ TmuxRunning
    /\ tm.timed
    /\ ~tm.fired
    /\ tm' = [tm EXCEPT !.fired = TRUE]
    /\ UNCHANGED notTmuxVars

\* the caller cancels the context it gave to ServeTunnel
TmuxParentCancel ==
    /\ TmuxRunning
    /\ ~tm.parent
    /\ tm' = [tm EXCEPT !.parent = TRUE]
    /\ UNCHANGED notTmuxVars

\* the first bytes arrive on one of the two connections
TmuxPeer(s) ==
    /\ TmuxRunning
    /\ s \notin tm.ready
    /\ tm' = [tm EXCEPT !.ready = @ \cup {s}]
    /\ UNCHANGED notTmuxVars

\* select: case <-ready1 / case <-ready2
TmuxSelectReady(s) ==
    /\ tm.pc = "select"
    /\ s \in tm.ready
    /\ tm' = [tm EXCEPT !.pc = "guess", !.side = s]
    /\ UNCHANGED notTmuxVars

\* select: case <-ctx.Done(): return
TmuxSelectDone ==
    /\ tm.pc = "select"
    /\ TmuxCtxDone(tm)
    /\ tm' = [tm EXCEPT !.pc = "done"]
    /\ UNCHANGED notTmuxVars

\* the goroutine of guessProtocol: case <-ctx.Done(): conn.Close()
TmuxGuessClose ==
    /\ tm.pc = "guess"
    /\ TmuxCtxDone(tm)
    /\ tm.side \notin tm.closed
    /\ tm' = [tm EXCEPT !.closed = @ \cup {tm.side}]
    /\ UNCHANGED notTmuxVars

\* guessProtocol returns the index of the protocol that recognised the
\* bytes, -1 when none did; ServeTunnel panics on -1 and otherwise calls the
\* protocol's ServeTunnel with the context it has been working with
TmuxGuess(i) ==
    /\ tm.pc = "guess"
    /\ tm' = [tm EXCEPT !.pc = IF i < 0 THEN "panic" ELSE "handler",
                        !.proto = i,
                        !.hctx = IF i < 0 THEN @
                                 ELSE IF tm.timed THEN "timeout" ELSE "parent"]
    /\ UNCHANGED notTmuxVars

\* whether the context the chosen handler was given is done
TmuxHandlerCtxDone(t) ==
    IF t.hctx = "timeout" THEN TmuxCtxDone(t) ELSE t.parent

\* the chosen handler sees its context done (and gives up, as Forwarder does)
TmuxHandlerDone ==
    /\ tm.pc = "handler"
    /\ TmuxHandlerCtxDone(tm)
    /\ ~tm.gaveup
    /\ tm' = [tm EXCEPT !.gaveup = TRUE, !.closed = Sides]
    /\ UNCHANGED notTmuxVars

\* the chosen handler returns, then ServeTunnel does (the deferred cancel)
TmuxHandlerReturn ==
    /\ tm.pc = "handler"
    /\ tm' = [tm EXCEPT !.pc = "done"]
    /\ UNCHANGED notTmuxVars

TmuxIdle == tm = NotInUse

\* ---- Server.ServeConn and its ReadTimeout ----

\* the pieces a client writes a request's header in
HeaderParts == 2

RtRunning == rq.pc \in {"wait", "read", "serve"}

RtExpired(r) == r.deadline # 0 /\ r.now >= r.deadline

\* the client writes the next piece of a header
RtClientWrite ==
    /\ RtRunning
    /\ rq.nsent < MaxReqs * HeaderParts
    /\ rq' = [rq EXCEPT !.nsent = @ + 1, !.sock = @ + 1]
    /\ UNCHANGED notRtVars

\* what a Read of the client gives: the bytes of a response, EOF once the
\* server's end is closed and nothing is left to read; it blocks otherwise
RtClientReadGives(r) ==
    IF r.cread < r.wire THEN "bytes" ELSE IF r.closed THEN "eof" ELSE "blocks"

RtClientRead ==
    /\ RtClientReadGives(rq) # "blocks"
    /\ rq' = [rq EXCEPT !.cread = IF @ < rq.wire THEN @ + 1 ELSE @,
                        !.saw = RtClientReadGives(rq)]
    /\ UNCHANGED notRtVars

RtTick ==
    /\ RtRunning
    /\ rq.now < MaxTime
    /\ rq' = [rq EXCEPT !.now = @ + 1]
    /\ UNCHANGED notRtVars

\* sc.waitReadyRead returns nil (something to read), and readRequest sets
\* the read deadline before it calls http.ReadRequest
RtWaitReady ==
    /\ rq.pc = "wait"
    /\ rq.sock > 0 \/ rq.buf > 0
    /\ rq' = [rq EXCEPT !.pc = "read",
                        !.deadline = IF rq.timeout # 0
                                     THEN rq.now + rq.timeout ELSE 0]
    /\ UNCHANGED notRtVars

\* http.ReadRequest reads what the socket holds into the bufio.Reader
RtFill ==
    /\ rq.pc = "read"
    /\ rq.buf < HeaderParts
    /\ rq.sock > 0
    /\ ~RtExpired(rq)
    /\ rq' = [rq EXCEPT !.buf = @ + rq.sock, !.sock = 0]
    /\ UNCHANGED notRtVars

\* http.ReadRequest returns the request: the header is complete
RtReadRequest ==
    /\ rq.pc = "read"
    /\ rq.buf >= HeaderParts
    /\ rq' = [rq EXCEPT !.pc = "serve", !.buf = @ - HeaderParts,
                        !.nreq = @ + 1]
    /\ UNCHANGED notRtVars

\* a server that answers a request it could not read in time
readRequestTimeoutAnswer(r) ==
    [r EXCEPT !.pc = "done", !.closed = TRUE, !.why = "timeout",
              !.wire = @ + 1]

\* what ServeConn does when http.ReadRequest fails on the read deadline:
\* return, and the deferred sc.Close() runs
readRequestTimeout(r) ==
    [r EXCEPT !.pc = "done", !.closed = TRUE, !.why = "timeout"]

\* the header is not complete when the read deadline passes
RtReadTimeout ==
    /\ rq.pc = "read"
    /\ rq.buf < HeaderParts
    /\ RtExpired(rq)
    /\ rq' = readRequestTimeout(rq)
    /\ UNCHANGED notRtVars

\* s.serveHTTP writes the response; ServeConn then returns (closing the
\* connection) when the request said close, and waits for the next otherwise
RtServeHTTP(cl) ==
    /\ rq.pc = "serve"
    /\ rq' = [rq EXCEPT !.wire = @ + 1,
                        !.pc = IF cl THEN "done" ELSE "wait",
                        !.closed = cl,
                        !.why = IF cl THEN "close" ELSE @]
    /\ UNCHANGED notRtVars

RtIdle == rq = NotInUse

\* ---- Listen and MultiListener (listen.go) ----

\* the addresses an address resolves to, at most
MaxAddrs == 2

\* the connections the children accept, at most
MaxAccepts == 2

\* the goroutines that call Close
Closers == 1..2

Children == 1..ml.n

\* Listen, one turn of its loop (or the single listen of one address):
\* listen(network, a) succeeds or fails.  On a failure in the loop the
\* listeners opened so far are closed and Listen returns: the error is in
\* the loop's e, the result err still holds the nil of resolveListen
Listen(ok) ==
    /\ ml.pc = "listen"
    /\ LET j == Cardinality(ml.open) + 1
       IN  IF ok
           THEN IF j < ml.n
                THEN ml' = [ml EXCEPT !.open = @ \cup {j}]
                ELSE ml' = [ml EXCEPT
                              !.open = @ \cup {j},
                              !.lstn = IF ml.n = 1 THEN "single" ELSE "multi",
                              !.pc = IF ml.n = 1 THEN "single" ELSE "multi",
                              !.g = [k \in 1..MaxAddrs |->
                                       IF ml.n > 1 /\ k <= ml.n
                                       THEN "accept" ELSE "none"]]
           ELSE ml' = [ml EXCEPT !.pc = "failed",
                                 !.lclosed = IF ml.n = 1 THEN @ ELSE ml.open,
                                 !.err = IF ml.n = 1 THEN "perm" ELSE "nil"]
    /\ UNCHANGED notMlVars

\* a child's Accept returns a connection: c <- conn is next
MlChildAccept(k) ==
    /\ ml.pc = "multi"
    /\ k \in Children
    /\ ml.g[k] = "accept"
    /\ k \notin ml.lclosed
    /\ ml.nacc < MaxAccepts
    /\ ml' = [ml EXCEPT !.g[k] = "sendc", !.nacc = @ + 1]
    /\ UNCHANGED notMlVars

\* a child's Accept fails while the child is open: e <- err is next
MlChildErr(k, e) ==
    /\ ml.pc = "multi"
    /\ k \in Children
    /\ ml.g[k] = "accept"
    /\ k \notin ml.lclosed
    /\ ml' = [ml EXCEPT !.g[k] = "sende", !.gerr[k] = e]
    /\ UNCHANGED notMlVars

\* a child's Accept fails because the child was closed
MlChildClosed(k) ==
    /\ ml.pc = "multi"
    /\ k \in Children
    /\ ml.g[k] = "accept"
    /\ k \in ml.lclosed
    /\ ml' = [ml EXCEPT !.g[k] = "sende", !.gerr[k] = "perm"]
    /\ UNCHANGED notMlVars

\* where a child's goroutine goes once its e <- err was received
AfterErr(m, k) == IF IsTemporary(m.gerr[k]) THEN "accept" ELSE "sendd"

\* Accept of the compound listener: case conn = <-m.c
AcceptConn(k) ==
    /\ ml.pc = "multi"
    /\ k \in Children
    /\ ml.g[k] = "sendc"
    /\ ml' = [ml EXCEPT !.g[k] = "accept", !.returned = @ + 1,
                        !.last = "conn"]
    /\ UNCHANGED notMlVars

\* Accept of the compound listener: case err = <-m.e
AcceptErr(k) ==
    /\ ml.pc = "multi"
    /\ k \in Children
    /\ ml.g[k] = "sende"
    /\ ml' = [ml EXCEPT !.g[k] = AfterErr(ml, k), !.last = ml.gerr[k]]
    /\ UNCHANGED notMlVars

\* Accept of the compound listener: case <-m.x: err = io.ErrClosedPipe
AcceptClosed ==
    /\ ml.pc = "multi"
    /\ ml.x
    /\ ml.last # "closed"
    /\ ml' = [ml EXCEPT !.last = "closed"]
    /\ UNCHANGED notMlVars

\* Close: m.once.Do; the first caller closes every child and enters the
\* loop, the others wait in once.Do until it is over
Close(c) ==
    /\ ml.pc = "multi"
    /\ ml.cl[c] = "none"
    /\ IF ml.once
       THEN ml' = [ml EXCEPT !.cl[c] = "waiting"]
       ELSE ml' = [ml EXCEPT !.cl[c] = "closing", !.once = TRUE,
                             !.lclosed = Children]
    /\ UNCHANGED notMlVars

\* the loop of Close: case conn := <-m.c: conn.Close()
CloseConn(c, k) ==
    /\ ml.cl[c] = "closing"
    /\ ml.i # ml.n
    /\ k \in Children
    /\ ml.g[k] = "sendc"
    /\ ml' = [ml EXCEPT !.g[k] = "accept", !.cclosed = @ + 1]
    /\ UNCHANGED notMlVars

\* a loop of Close that takes an error for the exit of a child
CloseErrCounted(c, k) ==
    /\ ml.cl[c] = "closing"
    /\ ml.i # ml.n
    /\ k \in Children
    /\ ml.g[k] = "sende"
    /\ ml' = [ml EXCEPT !.g[k] = AfterErr(ml, k), !.i = @ + 1]
    /\ UNCHANGED notMlVars

\* the loop of Close: case <-m.e
CloseErr(c, k) ==
    /\ ml.cl[c] = "closing"
    /\ ml.i # ml.n
    /\ k \in Children
    /\ ml.g[k] = "sende"
    /\ ml' = [ml EXCEPT !.g[k] = AfterErr(ml, k)]
    /\ UNCHANGED notMlVars

\* the loop of Close: case <-m.d: i++
CloseDone(c, k) ==
    /\ ml.cl[c] = "closing"
    /\ ml.i # ml.n
    /\ k \in Children
    /\ ml.g[k] = "sendd"
    /\ ml' = [ml EXCEPT !.g[k] = "exited", !.i = @ + 1]
    /\ UNCHANGED notMlVars

\* the loop of Close is over: close(m.x), and once.Do returns
CloseReturn(c) ==
    /\ ml.cl[c] = "closing"
    /\ ml.i = ml.n
    /\ ml' = [ml EXCEPT !.cl[c] = "returned", !.x = TRUE]
    /\ UNCHANGED notMlVars

\* a Close that waited in once.Do returns
CloseAgain(c) ==
    /\ ml.cl[c] = "waiting"
    /\ ml.x
    /\ ml' = [ml EXCEPT !.cl[c] = "returned"]
    /\ UNCHANGED notMlVars

\* the steps Close and the closed children take by themselves
CloseStep ==
    \/ \E k \in 1..MaxAddrs : MlChildClosed(k)
    \/ \E c \in Closers, k \in 1..MaxAddrs :
          CloseConn(c, k) \/ CloseErr(c, k) \/ CloseDone(c, k)
    \/ \E c \in Closers : CloseReturn(c) \/ CloseAgain(c)

MlIdle == ml = NotInUse

\* ---- Tunnel.ServeProxy and Forwarder.ServeTunnel (tunnel.go, forward.go) ----

\* the directions of a tunnel: from the client to the target and back
Dirs == {"up", "down"}

\* whether the connection a direction reads is closed on the tunnel's side
FwdSrcClosed(f, d) == IF d = "up" THEN f.fromClosed ELSE f.toClosed

\* whether the connection a direction writes is closed on the tunnel's side
FwdDstClosed(f, d) == IF d = "up" THEN f.toClosed ELSE f.fromClosed

\* Tunnel.ServeProxy: dial(ctx, ...), panic(err) or defer to.Close()
ServeProxyDial(ok) ==
    /\ fw.pc = "dial"
    /\ fw' = [fw EXCEPT !.pc = IF ok THEN "start" ELSE "panic"]
    /\ UNCHANGED notFwdVars

\* Forwarder.ServeTunnel: join.Add(2), go t.forward(from, to, join),
\* go t.forward(to, from, join), then <-ctx.Done()
ForwarderStart ==
    /\ fw.pc = "start"
    /\ fw' = [fw EXCEPT !.pc = "wait", !.cp = [d \in Dirs |-> "run"]]
    /\ UNCHANGED notFwdVars

\* a peer (the client for "up", the target for "down") writes a byte
FwdPeerSend(d) ==
    /\ fw.pc \in {"start", "wait", "return"}
    /\ ~fw.eof[d]
    /\ fw.nsent[d] < MaxRead
    /\ fw' = [fw EXCEPT !.nsent[d] = @ + 1, !.q[d] = @ + 1]
    /\ UNCHANGED notFwdVars

\* a peer closes its end of its connection
FwdPeerClose(d) ==
    /\ fw.pc \in {"start", "wait", "return"}
    /\ ~fw.eof[d]
    /\ fw' = [fw EXCEPT !.eof[d] = TRUE]
    /\ UNCHANGED notFwdVars

\* forward: Copy(to, from) moves a byte, or ends on the error of a write to
\* a connection that is closed
forwardCopy(d) ==
    /\ fw.cp[d] = "run"
    /\ ~FwdSrcClosed(fw, d)
    /\ fw.q[d] > 0
    /\ IF FwdDstClosed(fw, d)
       THEN fw' = [fw EXCEPT !.cp[d] = "done", !.q[d] = @ - 1]
       ELSE fw' = [fw EXCEPT !.q[d] = @ - 1, !.dl[d] = @ + 1]
    /\ UNCHANGED notFwdVars

\* forward: Copy(to, from) reads the end of the stream and returns;
\* join.Done() runs and nothing else
forwardEOF(d) ==
    /\ fw.cp[d] = "run"
    /\ ~FwdSrcClosed(fw, d)
    /\ fw.q[d] = 0
    /\ fw.eof[d]
    /\ fw' = [fw EXCEPT !.cp[d] = "done"]
    /\ UNCHANGED notFwdVars

\* forward: Copy(to, from) reads a connection that was closed under it
forwardClosed(d) ==
    /\ fw.cp[d] = "run"
    /\ FwdSrcClosed(fw, d)
    /\ fw' = [fw EXCEPT !.cp[d] = "done"]
    /\ UNCHANGED notFwdVars

\* the context given to ServeProxy is cancelled (the server shuts down)
FwdCtxCancel ==
    /\ fw.pc \in {"start", "wait"}
    /\ ~fw.ctx
    /\ fw' = [fw EXCEPT !.ctx = TRUE]
    /\ UNCHANGED notFwdVars

\* Forwarder.ServeTunnel: <-ctx.Done() and the function returns
ForwarderCtxDone ==
    /\ fw.pc = "wait"
    /\ fw.ctx
    /\ fw' = [fw EXCEPT !.pc = "return"]
    /\ UNCHANGED notFwdVars

\* Tunnel.ServeProxy returns: the deferred to.Close()
ServeProxyReturn ==
    /\ fw.pc = "return"
    /\ fw' = [fw EXCEPT !.pc = "returned", !.toClosed = TRUE]
    /\ UNCHANGED notFwdVars

\* the server that called ServeProxy closes the client's connection once
\* the handler has returned or panicked
FwdServerClose ==
    /\ fw.pc \in {"returned", "panic"}
    /\ fw' = [fw EXCEPT !.pc = "done", !.fromClosed = TRUE]
    /\ UNCHANGED notFwdVars

\* the steps the tunnel takes by itself
FwdStep ==
    \/ \E ok \in BOOLEAN : ServeProxyDial(ok)
    \/ ForwarderStart
    \/ \E d \in Dirs : forwardCopy(d) \/ forwardEOF(d) \/ forwardClosed(d)
    \/ ForwarderCtxDone
    \/ ServeProxyReturn
    \/ FwdServerClose

FwdIdle == fw = NotInUse

\* ---- ConnTransport.RoundTrip (httpx/conn.go) ----

\* what a Read of the connection may give: bytes ("nil"), a temporary
\* error, or an error that is not temporary
ReadErrs == {"nil", "temp", "EOF", "reset"}

\* the end of connReader.Read: if err != nil && !netx.IsTemporary(err) {
\* c.cancel() }, a call that panics when the cancel field is nil; the
\* error is returned otherwise
connReaderCancel(cancel, e) ==
    IF e # "nil" /\ ~IsTemporary(e) /\ cancel = "nil" THEN "panic" ELSE e

\* RoundTrip: conn = t.Conn, or the connection dial returns; then
\* c = &connReader{Conn: conn, limit: -1}, which leaves c.cancel nil
RoundTripDial(ok) ==
    /\ ct.pc = "start"
    /\ IF ct.given
       THEN /\ ok
            /\ ct' = [ct EXCEPT !.pc = "write", !.open = TRUE]
       ELSE IF ok
            THEN ct' = [ct EXCEPT !.pc = "write", !.open = TRUE,
                                  !.dialled = TRUE]
            ELSE ct' = [ct EXCEPT !.pc = "returned", !.err = "dial"]
    /\ UNCHANGED notTripVars

\* if err = req.Write(w); err != nil { return }
RoundTripWrite(ok) ==
    /\ ct.pc = "write"
    /\ ct' = IF ok THEN [ct EXCEPT !.pc = "flush"]
             ELSE [ct EXCEPT !.pc = "returned", !.err = "write"]
    /\ UNCHANGED notTripVars

\* if err = w.Flush(); err != nil { return }, then c.limit is set and,
\* with a ResponseHeaderTimeout, the read deadline
RoundTripFlush(ok) ==
    /\ ct.pc = "flush"
    /\ ct' = IF ok THEN [ct EXCEPT !.pc = "read", !.deadline = ct.timeout]
             ELSE [ct EXCEPT !.pc = "returned", !.err = "flush"]
    /\ UNCHANGED notTripVars

\* http.ReadResponse reads the connection through the connReader: a piece
\* of the header arrives, or the Read fails (with a temporary error when
\* the read deadline passes)
RoundTripRead(e) ==
    /\ ct.pc = "read"
    /\ ct.hdr < HeaderParts
    /\ e = "temp" => ct.deadline
    /\ LET out == connReaderCancel(ct.cancel, e)
       IN  ct' = IF out = "nil" THEN [ct EXCEPT !.hdr = @ + 1, !.rerr = e]
                 ELSE IF out = "panic"
                 THEN [ct EXCEPT !.pc = "crashed", !.rerr = e,
                                 !.at = "RoundTrip"]
                 ELSE [ct EXCEPT !.pc = "returned", !.err = out, !.rerr = e,
                                 !.at = "RoundTrip"]
    /\ UNCHANGED notTripVars

\* http.ReadResponse returns: an error for a header it cannot parse, and the
\* response otherwise, its body closing conn when the transport dialled it;
\* c.SetReadDeadline(time.Time{}) clears the deadline
RoundTripReturn(ok, len) ==
    /\ ct.pc = "read"
    /\ ct.hdr = HeaderParts
    /\ ct' = IF ok THEN [ct EXCEPT !.pc = "body", !.left = len,
                                   !.wrapped = ct.dialled,
                                   !.deadline = FALSE]
             ELSE [ct EXCEPT !.pc = "returned", !.err = "malformed"]
    /\ UNCHANGED notTripVars

\* the caller reads the body, which reads the connection through the
\* connReader
BodyRead(e) ==
    /\ ct.pc = "body"
    /\ ct.left > 0
    /\ LET out == connReaderCancel(ct.cancel, e)
       IN  ct' = IF out = "nil" THEN [ct EXCEPT !.left = @ - 1, !.rerr = e]
                 ELSE IF out = "panic"
                 THEN [ct EXCEPT !.pc = "crashed", !.rerr = e,
                                 !.at = "Body"]
                 ELSE [ct EXCEPT !.err = out, !.rerr = e, !.at = "Body"]
    /\ UNCHANGED notTripVars

\* the caller closes the body: the Closer is conn when the body was wrapped
BodyClose ==
    /\ ct.pc = "body"
    /\ ct' = [ct EXCEPT !.pc = "closed",
                        !.open = IF ct.wrapped THEN FALSE ELSE @]
    /\ UNCHANGED notTripVars

TripIdle == ct = NotInUse

\* the parts modelled on their own, not in use
PartsIdle == ChunkIdle /\ LimitIdle /\ WaitIdle /\ TmuxIdle /\ RtIdle
    /\ MlIdle /\ FwdIdle /\ TripIdle

\* the state ServeConn builds before its loop (server.go:68-90)
HttpStart ==
    /\ nsent = 0
    /\ sock = <<>>
    /\ Reader = <<>>
    /\ eof = FALSE
    /\ connBroken = FALSE
    /\ req = NoReq
    /\ closed = FALSE
    /\ bodyLeft = 0
    /\ nreq = 0
    /\ res = newResponseWriter
    /\ Writer = <<>>
    /\ wire = <<>>
    /\ ops = 0
    /\ whAgain = FALSE
    /\ werr = "nil"
    /\ scClosed = FALSE
    /\ answered = {}
    /\ responded = <<>>
    /\ excused = FALSE

\* no HTTP server is in use
HttpIdle ==
    /\ hasFile = FALSE
    /\ pcH = "idle"
    /\ HttpStart

\* the state common to both revisions when Serve has set up its context
InitCommon ==
    /\ ctxDone = FALSE
    /\ lstnClosed = FALSE
    /\ ret = "none"
    /\ doneNil = FALSE
    /\ errsNil = FALSE
    /\ connsNil = FALSE
    /\ errsClosed = FALSE
    /\ connsClosed = FALSE
    /\ attempt = 0
    /\ backoff = 0
    /\ err = "nil"
    /\ conn = 0
    /\ h = [c \in Conns |-> "new"]
    /\ connClosed = [c \in Conns |-> FALSE]
    /\ panicked = [c \in Conns |-> FALSE]
    /\ crashed = FALSE
    /\ tempRun = 0
    /\ fatalCheck = "none"
    /\ backoffCut = FALSE
    /\ lateStarts = 0
    /\ cancelAt = "none"

\* the multiplexer's state before ServeConn is called on a connection: the
\* client has connected and has written nothing yet
MuxConnected ==
    /\ arrived = 0
    /\ peerClosed = FALSE
    /\ rpos = 0
    /\ muxConnClosed = FALSE
    /\ deadline = "none"
    /\ mctxDone = FALSE
    /\ pcW = "none"
    /\ doneClosed = FALSE
    /\ pi = 0
    /\ pb = <<>>
    /\ rerr = "none"
    /\ teeB = <<>>
    /\ teeI = 0
    /\ gi = 0
    /\ head = <<>>
    /\ seen = <<>>
    /\ claimed = {}
    /\ invoked = {}
    /\ muxErr = "none"
    /\ elapsedEarly = FALSE

\* the poller before its first registration
PollStart ==
    /\ fdOpen = [fd \in FDs |-> FALSE]
    /\ files = [fd \in FDs |-> 0]
    /\ armed = [fd \in FDs |-> FALSE]
    /\ regFd = [r \in Regs |-> 0]
    /\ regOpen = [r \in Regs |-> FALSE]
    /\ chCloses = [r \in Regs |-> 0]
    /\ cancelled = [r \in Regs |-> FALSE]
    /\ cancelMid = [r \in Regs |-> 0]
    /\ dFd = 0
    /\ dFp = 0
    /\ tMid = FALSE
    /\ tSide = 0
    /\ tCtxDone = FALSE
    /\ tOut = "none"
    /\ stolen = {}

\* no poller is in use
PollIdle ==
    /\ pollRev = "none"
    /\ pcD = "idle"
    /\ pcT = "idle"
    /\ PollStart

\* no multiplexer is in use
MuxIdle ==
    /\ protos = <<>>
    /\ timeout = 0
    /\ sent = <<>>
    /\ pcM = "idle"
    /\ MuxConnected

\* no server is in use
SrvIdle ==
    /\ rev = "none"
    /\ pcS = "idle"
    /\ pcA = "none"
    /\ pcC = "none"
    /\ join = 0
    /\ InitCommon

\* part_012: Serve is about to enter its loop, join.Add(1); go s.accept(...)
\* has run
InitChan ==
    /\ rev = "chan"
    /\ pcS = "select"
    /\ pcA = "accept"
    /\ pcC = "none"
    /\ join = 1
    /\ InitCommon
    /\ MuxIdle
    /\ PollIdle
    /\ HttpIdle
    /\ PartsIdle

\* server.go: Serve is about to call Accept, the goroutine that closes the
\* listener has been started
InitLoop ==
    /\ rev = "loop"
    /\ pcS = "accept"
    /\ pcA = "none"
    /\ pcC = "wait"
    /\ join = 0
    /\ InitCommon
    /\ MuxIdle
    /\ PollIdle
    /\ HttpIdle
    /\ PartsIdle

Init == InitChan \/ InitLoop

\* the steps of the environment and of the serve goroutines
NextShared ==
    \/ CtxCancel
    \/ \E c \in Conns : serveReturn(c)
    \/ \E c \in Conns : servePanic(c)
    \/ \E c \in Conns : serveDone(c)
    \/ \E c \in Conns : serveRecover(c)

NextChan ==
    \/ acceptCall
    \/ acceptBackoffTimer
    \/ acceptBackoffCancel
    \/ acceptCheckErr
    \/ acceptCloseConns
    \/ acceptCloseErrs
    \/ acceptJoinDone
    \/ ServeSelectDone
    \/ ServeRecvErr
    \/ ServeErrsClosed
    \/ ServeRecvConn
    \/ ServeConnsClosed
    \/ ServeDeferCancel
    \/ ServeDeferClose
    \/ ServeWait

NextLoop ==
    \/ LoopCloseOnDone
    \/ LoopAccept
    \/ LoopBackoffTimer
    \/ LoopBackoffCancel
    \/ LoopCheckErr
    \/ LoopSpawn
    \/ LoopDeferCancel
    \/ LoopWait
    \/ LoopDeferClose

Next == NextShared \/ NextChan \/ NextLoop

\* both revisions of the server
Spec == Init /\ [][Next]_vars

NextChanRev == NextShared \/ NextChan

\* the steps of the accept goroutine, of the goroutine running Serve, and of
\* the serve goroutine of connection c
acceptStep ==
    \/ acceptCall
    \/ acceptBackoffTimer
    \/ acceptBackoffCancel
    \/ acceptCheckErr
    \/ acceptCloseConns
    \/ acceptCloseErrs
    \/ acceptJoinDone

ServeStep ==
    \/ ServeSelectDone
    \/ ServeRecvErr
    \/ ServeErrsClosed
    \/ ServeRecvConn
    \/ ServeConnsClosed
    \/ ServeDeferCancel
    \/ ServeDeferClose
    \/ ServeWait

serveStep(c) ==
    \/ serveReturn(c)
    \/ servePanic(c)
    \/ serveDone(c)
    \/ serveRecover(c)

\* the steps of the server's goroutines, the owner of the context left out
ProgramStep == acceptStep \/ ServeStep \/ \E c \in Conns : serveStep(c)

\* The program does not stop while one of its goroutines can take a step
\* (the Go scheduler runs a runnable goroutine): Accept eventually returns, a
\* select with a ready case eventually takes one, and a running handler
\* eventually returns or panics.  Every goroutine takes finitely many steps
\* in a run, so this lets each of them run as far as it can.  Nothing is
\* assumed of the owner of the context, nor of which ready case a select
\* takes.
FairChan == WF_vars(ProgramStep)

\* the server of part_012 alone, with its scheduling
LiveChan == InitChan /\ [][NextChanRev]_vars /\ FairChan

\* ProtoMux.ServeConn has just been called on a connection, for any list of
\* protocols, with or without a ReadTimeout, and for any bytes the client
\* is going to write
MuxInit ==
    /\ protos \in SeqsUpTo(ProtoKinds, MaxProtos)
    /\ timeout \in {0, 100}
    /\ sent \in SeqsUpTo(Bytes, MaxStream)
    /\ pcM = "start"
    /\ MuxConnected
    /\ SrvIdle
    /\ PollIdle
    /\ HttpIdle
    /\ PartsIdle

MuxNext ==
    \/ ClientWrite
    \/ ClientClose
    \/ DeadlineElapse
    \/ MuxCtxCancel
    \/ guessProtocolGo
    \/ watcherDone
    \/ watcherClose
    \/ guessProtocolDeadline
    \/ guessProtocolLoop
    \/ teeReaderRead
    \/ CanReadTrue
    \/ CanReadFalse
    \/ ServeConn
    \/ \E k \in 1..MaxRead : protoConnRead(k)
    \/ HandlerReturn

\* one connection handled by a ProtoMux
MuxSpec == MuxInit /\ [][MuxNext]_vars

\* TunnelProtoMux.ServeTunnel has just been called; the dispatcher goroutine
\* of the poller runs, and other users register connections of their own
PollInitFile ==
    /\ pollRev = "file"
    /\ pcD = "wait"
    /\ pcT = "poll1"
    /\ PollStart
    /\ SrvIdle
    /\ MuxIdle
    /\ HttpIdle
    /\ PartsIdle

\* the poller of part_032 and its users
PollInitChan ==
    /\ pollRev = "chan"
    /\ pcD = "wait"
    /\ pcT = "idle"
    /\ PollStart
    /\ SrvIdle
    /\ MuxIdle
    /\ HttpIdle
    /\ PartsIdle

PollInit == PollInitFile \/ PollInitChan

PollNext ==
    \/ dispatchWait
    \/ dispatchLookup
    \/ dispatchClose
    \/ \E r \in Regs : OtherRegister(r)
    \/ \E r \in Regs : OtherCancelDelete(r)
    \/ \E r \in Regs : OtherCancelClose(r)
    \/ chanDispatch
    \/ \E r \in Regs : chanCancelCtl(r)
    \/ \E r \in Regs : chanCancelDelete(r)
    \/ \E r \in Regs : UserClose(r)
    \/ TunnelCtxCancel
    \/ ServeTunnelPoll1
    \/ ServeTunnelPoll2
    \/ \E side \in TunnelRegs : ServeTunnelReady(side)
    \/ ServeTunnelCtxDone
    \/ ServeTunnelCancelDelete
    \/ ServeTunnelCancelClose
    \/ ServeTunnelServe

\* one tunnel handled by a TunnelProtoMux, on a poller that others use too
PollSpec == PollInit /\ [][PollNext]_vars

\* httpx.Server.ServeConn has just been called on a connection, which gives
\* a file to poll or not
HttpInit ==
    /\ hasFile \in BOOLEAN
    /\ pcH = "wait"
    /\ HttpStart
    /\ SrvIdle
    /\ MuxIdle
    /\ PollIdle
    /\ PartsIdle

HttpNext ==
    \/ \E q \in Requests : ClientSend(q)
    \/ ClientShutdown
    \/ ConnBreak
    \/ waitReadyRead
    \/ \E cause \in {"timeout", "ctx", "eof"} : waitReadyReadFail(cause)
    \/ readRequest
    \/ readRequestEOF
    \/ \E v \in Lengths : HandlerSetLength(v)
    \/ \E s \in {0, 200, 204} : HandlerWriteHeader(s)
    \/ \E s \in {0, 200, 204} : HandlerWriteHeaderNil(s)
    \/ \E len \in 0..MaxWrite : HandlerWrite(len)
    \/ HandlerFlush
    \/ HandlerHijack
    \/ HandlerReadBody
    \/ serveHTTPReturn
    \/ serveHTTPPanic
    \/ ServeConnNext

\* one connection served by httpx.Server
HttpSpec == HttpInit /\ [][HttpNext]_vars

\* the variables of the other components, at rest
MainIdle == SrvIdle /\ MuxIdle /\ PollIdle /\ HttpIdle

\* each part on its own: the others, and the main components, not in use
ChunkAlone == LimitIdle /\ WaitIdle /\ TmuxIdle /\ RtIdle /\ MlIdle
    /\ FwdIdle /\ TripIdle /\ MainIdle
LimitAlone == ChunkIdle /\ WaitIdle /\ TmuxIdle /\ RtIdle /\ MlIdle
    /\ FwdIdle /\ TripIdle /\ MainIdle
WaitAlone == ChunkIdle /\ LimitIdle /\ TmuxIdle /\ RtIdle /\ MlIdle
    /\ FwdIdle /\ TripIdle /\ MainIdle
TmuxAlone == ChunkIdle /\ LimitIdle /\ WaitIdle /\ RtIdle /\ MlIdle
    /\ FwdIdle /\ TripIdle /\ MainIdle
RtAlone == ChunkIdle /\ LimitIdle /\ WaitIdle /\ TmuxIdle /\ MlIdle
    /\ FwdIdle /\ TripIdle /\ MainIdle
MlAlone == ChunkIdle /\ LimitIdle /\ WaitIdle /\ TmuxIdle /\ RtIdle
    /\ FwdIdle /\ TripIdle /\ MainIdle
FwdAlone == ChunkIdle /\ LimitIdle /\ WaitIdle /\ TmuxIdle /\ RtIdle
    /\ MlIdle /\ TripIdle /\ MainIdle
TripAlone == ChunkIdle /\ LimitIdle /\ WaitIdle /\ TmuxIdle /\ RtIdle
    /\ MlIdle /\ FwdIdle /\ MainIdle

\* a chunkWriter with an empty buffer, nothing written yet
ChunkInit ==
    /\ cw = [b |-> <<>>, out |-> <<>>, ret |-> 0, in |-> <<>>, calls |-> 0,
             closed |-> FALSE, last |-> 0]
    /\ ChunkAlone

ChunkNext ==
    \/ \E len \in 0..MaxWrite : ChunkWrite(len)
    \/ ChunkFlush
    \/ ChunkClose

\* one chunkWriter and its caller
ChunkSpec == ChunkInit /\ [][ChunkNext]_vars

\* a connection with or without a file (newServerConn, server.go:213-221:
\* limit -1), on which a client has sent its requests one after the other
LimitInit ==
    /\ \E f \in BOOLEAN, l \in UNION {[1..j -> HeaderLens] : j \in 1..MaxReqs} :
          hp = [pc |-> "wait", file |-> f, lens |-> l, n |-> 0, given |-> 0,
                limit |-> -1, buf |-> 0, net |-> SumLens(l)]
    /\ LimitAlone

LimitNext ==
    \/ LimitWaitReadyRead
    \/ LimitReadRequest
    \/ LimitParse
    \/ LimitFill
    \/ LimitFillEOF
    \/ LimitServed

\* the bytes of the requests of one connection on their way to the parser
LimitSpec == LimitInit /\ [][LimitNext]_vars

\* ServeConn calls waitReadyRead at some time, on a connection with or
\* without a file, with some idle timeout
WaitInit ==
    /\ \E f \in BOOLEAN, t \in Timeouts, s \in 0..1 :
          wt = [pc |-> "start", file |-> f, timeout |-> t, now |-> s,
                since |-> s, until |-> 0, rd |-> 0, data |-> "none",
                ctx |-> FALSE, result |-> "none"]
    /\ WaitAlone

WaitNext ==
    \/ WaitStart
    \/ PollPeekData
    \/ PollPeekEOF
    \/ PollPeekTimeout
    \/ PollCheckDeadline
    \/ PollSelect
    \/ WaitReady
    \/ WaitTimer
    \/ WaitCancel
    \/ \E d \in {"bytes", "eof"} : WaitPeer(d)
    \/ WaitCtxCancel
    \/ WaitTick

\* one call of waitReadyRead, the peer, the context and the clock
WaitSpec == WaitInit /\ [][WaitNext]_vars

TmuxInit ==
    /\ \E t \in BOOLEAN :
          tm = [pc |-> "select", timed |-> t, fired |-> FALSE,
                parent |-> FALSE, ready |-> {}, side |-> "none",
                closed |-> {}, proto |-> -1, hctx |-> "none",
                gaveup |-> FALSE]
    /\ TmuxAlone

TmuxNext ==
    \/ TmuxTimer
    \/ TmuxParentCancel
    \/ \E s \in Sides : TmuxPeer(s)
    \/ \E s \in Sides : TmuxSelectReady(s)
    \/ TmuxSelectDone
    \/ TmuxGuessClose
    \/ \E i \in -1..(MaxProtos - 1) : TmuxGuess(i)
    \/ TmuxHandlerDone
    \/ TmuxHandlerReturn

\* one call of TunnelProtoMux.ServeTunnel, the two peers, the timer and the
\* caller's context
TmuxSpec == TmuxInit /\ [][TmuxNext]_vars

RtInit ==
    /\ \E t \in Timeouts :
          rq = [pc |-> "wait", timeout |-> t, now |-> 0, deadline |-> 0,
                nsent |-> 0, sock |-> 0, buf |-> 0, nreq |-> 0, wire |-> 0,
                closed |-> FALSE, cread |-> 0, saw |-> "none",
                why |-> "none"]
    /\ RtAlone

RtNext ==
    \/ RtClientWrite
    \/ RtClientRead
    \/ RtTick
    \/ RtWaitReady
    \/ RtFill
    \/ RtReadRequest
    \/ RtReadTimeout
    \/ \E cl \in BOOLEAN : RtServeHTTP(cl)

\* one connection served by Server.ServeConn with a ReadTimeout, its client
\* and the clock
RtSpec == RtInit /\ [][RtNext]_vars

MlInit ==
    /\ \E n \in 1..MaxAddrs :
          ml = [pc |-> "listen", n |-> n, open |-> {}, lclosed |-> {},
                lstn |-> "nil", err |-> "nil",
                g |-> [k \in 1..MaxAddrs |-> "none"],
                gerr |-> [k \in 1..MaxAddrs |-> "nil"],
                nacc |-> 0, returned |-> 0, cclosed |-> 0,
                cl |-> [c \in Closers |-> "none"], i |-> 0, once |-> FALSE,
                x |-> FALSE, last |-> "none"]
    /\ MlAlone

MlNext ==
    \/ \E ok \in BOOLEAN : Listen(ok)
    \/ \E k \in 1..MaxAddrs : MlChildAccept(k)
    \/ \E k \in 1..MaxAddrs, e \in {"temp", "perm"} : MlChildErr(k, e)
    \/ \E k \in 1..MaxAddrs : AcceptConn(k) \/ AcceptErr(k)
    \/ AcceptClosed
    \/ \E c \in Closers : Close(c)
    \/ CloseStep

\* Listen on an address that resolves to one or more, then the compound
\* listener, its children, its users and the callers of Close
MlSpec == MlInit /\ [][MlNext]_vars

FwdInit ==
    /\ fw = [pc |-> "dial", ctx |-> FALSE, fromClosed |-> FALSE,
             toClosed |-> FALSE, cp |-> [d \in Dirs |-> "none"],
             nsent |-> [d \in Dirs |-> 0], q |-> [d \in Dirs |-> 0],
             dl |-> [d \in Dirs |-> 0], eof |-> [d \in Dirs |-> FALSE]]
    /\ FwdAlone

FwdNext ==
    \/ FwdStep
    \/ \E d \in Dirs : FwdPeerSend(d)
    \/ \E d \in Dirs : FwdPeerClose(d)
    \/ FwdCtxCancel

\* one connection tunnelled by a Tunnel whose handler is a Forwarder, the
\* two peers and the server's context
FwdSpec == FwdInit /\ [][FwdNext]_vars

TripInit ==
    /\ \E g \in BOOLEAN, t \in BOOLEAN :
          ct = [pc |-> "start", given |-> g, dialled |-> FALSE,
                open |-> FALSE, cancel |-> "nil", timeout |-> t,
                deadline |-> FALSE, hdr |-> 0, left |-> 0,
                wrapped |-> FALSE, err |-> "nil", rerr |-> "nil",
                at |-> "none"]
    /\ TripAlone

TripNext ==
    \/ \E ok \in BOOLEAN : RoundTripDial(ok)
    \/ \E ok \in BOOLEAN : RoundTripWrite(ok)
    \/ \E ok \in BOOLEAN : RoundTripFlush(ok)
    \/ \E e \in ReadErrs : RoundTripRead(e)
    \/ \E ok \in BOOLEAN, len \in 0..MaxRead : RoundTripReturn(ok, len)
    \/ \E e \in ReadErrs : BodyRead(e)
    \/ BodyClose

\* one RoundTrip of a ConnTransport, on the connection it was given or on
\* one it dials, and the caller's use of the response body
TripSpec == TripInit /\ [][TripNext]_vars

\* the tunnel's own steps are scheduled; the peers and the server's
\* shutdown are not
FwdLive == FwdSpec /\ WF_vars(FwdStep)

\* Close and the closed children are scheduled
MlLive == MlSpec /\ WF_vars(CloseStep)

\* the steps of the goroutine that runs ServeConn, and the return of the
\* handler it calls
ServeConnStep ==
    \/ waitReadyRead
    \/ readRequest
    \/ readRequestEOF
    \/ serveHTTPReturn
    \/ ServeConnNext

\* the goroutine is scheduled and handlers return
FairHttp == WF_vars(ServeConnStep)

HttpLive == HttpInit /\ [][HttpNext]_vars /\ FairHttp

(* =========================== the claims =============================== *)

\* the connections Accept has returned
Accepted == {c \in Conns : h[c] # "new"}

\* the connections whose handler has been started, and those whose handler
\* is over (ServeConn returned or panicked, conn.Close and join.Done done)
Started == {c \in Conns : h[c] \notin {"new", "accepted"}}
Over == {c \in Conns : h[c] \in {"recover", "exited"}}

(* C1: when Serve returns, every handler it started has returned and every
   connection it accepted has been closed. *)
C1_ServeJoinsHandlers ==
    pcS = "returned" =>
        \A c \in Accepted : c \in Over /\ connClosed[c]

C1_Witness ==
    /\ rev = "chan"
    /\ pcS = "returned"
    /\ Accepted = Conns
    /\ \E c \in Conns : panicked[c]
    /\ \E c \in Conns : ~panicked[c]

C3_WitnessCancelled ==
    /\ pcS = "returned"
    /\ fatalCheck = "cancelled"
    /\ err \in {"nil", "fatal", "closed"}

\* the WaitGroup counter counts the accept goroutine and the handlers that
\* have not called join.Done yet
JoinCounts ==
    join = (IF rev = "chan" /\ pcA # "exited" THEN 1 ELSE 0)
           + Cardinality({c \in Conns : h[c] \in {"running", "done"}})

\* a step in which the handler of c panics or unwinds after a panic leaves
\* Serve and every other connection as they are
PanicIsLocal ==
    \A c \in Conns :
        (h'[c] # h[c] /\ panicked'[c]) =>
            /\ pcS' = pcS
            /\ ret' = ret
            /\ crashed' = crashed
            /\ \A d \in Conns \ {c} :
                  /\ h'[d] = h[d]
                  /\ connClosed'[d] = connClosed[d]
                  /\ panicked'[d] = panicked[d]

(* C4: a panic in a handler stays in its goroutine: the connection is closed
   and join.Done called all the same, the process goes on, Serve does not
   return or get an error from it, other handlers are untouched. *)
C4_PanicContained ==
    /\ [](/\ ~crashed
          /\ JoinCounts
          /\ \A c \in Conns : (panicked[c] /\ c \in Over) => connClosed[c])
    /\ [][PanicIsLocal]_vars

C4_Witness ==
    /\ rev = "chan"
    /\ pcS = "select"
    /\ ret = "none"
    /\ \E c, d \in Conns :
          /\ panicked[c]
          /\ h[c] = "exited"
          /\ connClosed[c]
          /\ h[d] = "running"

(* C5, as claimed: once the context is cancelled no handler is started. *)
C5_NoStartAfterCancel ==
    [][ctxDone => \A c \in Conns : h'[c] = "running" => h[c] = "running"]_vars

(* C5, amended: once the cancellation has been seen (by Serve's select in
   part_012, by the closing goroutine in server.go) the listener is closed,
   and with the listener closed at most one more handler is started, for the
   connection that Accept had already returned. *)
C5_CloseThenAtMostOneStart ==
    /\ (doneNil \/ pcC = "exited") => lstnClosed
    /\ lateStarts <= 1
    /\ lstnClosed => ctxDone

C5_Witness ==
    /\ lateStarts = 1
    /\ ctxDone
    /\ lstnClosed
    /\ \E c \in Conns : h[c] = "running"

(* C6: when the backoff wait is left because the context is cancelled,
   Accept is not called again and Serve returns nil. *)
C6_CutBackoffReturnsNil ==
    (backoffCut /\ cancelAt = "backoff") =>
        /\ pcA \notin {"accept", "backoff", "checkErr", "sendErr", "sendConn"}
        /\ pcS \notin {"accept", "backoff", "checkErr", "spawn"}
        /\ pcS = "returned" => ret = "nil"

\* min(1 s, k*k*10 ms), in milliseconds
ClaimedWait(k) == Min(1000, k * k * 10)

(* C7: after the k-th temporary Accept error in a row (k from 0) the wait
   before the next Accept is min(1 s, k*k*10 ms). *)
C7_BackoffSchedule ==
    (pcA = "backoff" \/ pcS = "backoff") =>
        /\ tempRun >= 1
        /\ backoff = ClaimedWait(tempRun - 1)
        /\ backoff <= 1000
        /\ tempRun = 5 => backoff = 160

C7_Witness ==
    /\ pcA = "backoff"
    /\ tempRun = 12
    /\ backoff = 1000

\* a second run of temporary errors, after a connection was served
C7_WitnessSecondRun ==
    /\ pcA = "backoff"
    /\ Started # {}
    /\ tempRun = 2
    /\ backoff = 10

(* C8: whatever the protocols read while probing, the handler the
   multiplexer chose reads from its connection exactly the bytes the client
   sent, from the first byte on, in order, nothing lost and nothing twice:
   what it has read so far, followed by what its protoConn still holds, is
   what has been taken from the socket, and that is the start of what the
   client wrote. *)
C8_HandlerReadsClientBytes ==
    /\ invoked = {} => seen = <<>>
    /\ gi > 0 =>
        /\ rpos <= arrived
        /\ seen \o head = SubSeq(sent, 1, rpos)

\* the second protocol was chosen after the first one read bytes and
\* declined; its handler has read the whole stream, the replayed bytes first
\* and the rest from the socket
C8_Witness ==
    /\ pcM = "serving"
    /\ gi = 2
    /\ ~protos[1].any
    /\ teeB # <<>>
    /\ Len(teeB) < Len(sent)
    /\ Len(sent) = 3
    /\ seen = sent

(* C9: if no registered protocol claims the stream (guessProtocol has asked
   them all and returns -1), ServeConn panics with errUnsupportedProtocol
   and no protocol's handler is invoked. *)
C9_NoClaimIsUnsupported ==
    /\ claimed = {} => invoked = {}
    /\ (gi = -1 /\ pcM # "guessed") =>
        /\ pcM = "panicked"
        /\ muxErr = "unsupported protocol"
        /\ invoked = {}
        /\ seen = <<>>

\* two protocols read bytes of the stream and declined
C9_Witness ==
    /\ pcM = "panicked"
    /\ muxErr = "unsupported protocol"
    /\ Len(protos) = 2
    /\ claimed = {}
    /\ Len(teeB) = 2
    /\ deadline # "elapsed"

(* C10: if a read timeout is configured and it elapses before any protocol
   has claimed the stream, the multiplexer closes the connection and invokes
   no protocol handler.  The connection counts as closed as well when
   ServeConn panics, since Server.serve closes the connection of a handler
   that panicked. *)
C10_TimeoutClosesAndAbandons ==
    elapsedEarly =>
        /\ invoked = {}
        /\ pcM \in {"serving", "finished", "panicked"} =>
               (muxConnClosed \/ pcM = "panicked")

\* the client stays silent, the first protocol's read fails when the deadline
\* passes, and the second protocol, which takes any stream, gets the
\* connection, still open
C10_SilentClientFallback ==
    /\ elapsedEarly
    /\ protos = <<[any |-> FALSE, want |-> <<1, 2>>],
                  [any |-> TRUE, want |-> <<>>]>>
    /\ arrived = 0
    /\ ~peerClosed
    /\ ~mctxDone
    /\ pcM = "serving"
    /\ invoked = {2}
    /\ ~muxConnClosed

(* C11: if a read timeout is configured, the read deadline that
   guessProtocol put on the connection has been removed by the time the
   chosen protocol's handler is invoked. *)
C11_DeadlineRemovedForHandler ==
    (timeout # 0 /\ invoked # {}) => deadline = "none"

\* registration r holds nothing any more: its file is closed and p.files
\* does not lead to it
Released(r) == regFd[r] # 0 => (~regOpen[r] /\ files[regFd[r]] # r)

(* C12: every poller registration ServeTunnel created is released on every
   way out of it (a side became readable, the context was cancelled or timed
   out, a panic), and the registration of the side that the select did not
   take is cancelled before the protocol is guessed. *)
C12_TunnelReleasesRegistrations ==
    pollRev = "file" =>
        /\ pcT = "done" => \A r \in TunnelRegs : Released(r)
        /\ (tSide # 0 /\ pcT # "cancelOther") =>
               (cancelled[3 - tSide] /\ Released(3 - tSide))

\* ServeTunnel took the from side and ended in a panic
C12_Witness ==
    /\ pcT = "done"
    /\ tSide = 1
    /\ tOut = "panicked"
    /\ cancelled[1]
    /\ cancelled[2]

\* ServeTunnel left through case <-ctx.Done()
C12_WitnessCtxDone ==
    /\ pcT = "done"
    /\ tSide = 0
    /\ tOut = "returned"
    /\ cancelled[1]
    /\ cancelled[2]

\* PollRead(to) failed
C12_WitnessPollError ==
    /\ pcT = "done"
    /\ tOut = "panicked"
    /\ regFd[2] # 0
    /\ ~cancelled[2]
    /\ cancelled[1]

(* C13: for each poller registration the ready channel is closed at most
   once, whatever the interleaving of the dispatcher, cancel and repeated
   calls of cancel. *)
C13_ReadyClosedAtMostOnce == \A r \in Regs : chCloses[r] <= 1

\* the dispatcher has taken a registration out of p.files and is about to
\* call fp.close on it, while a cancel has closed it in between
C13_Witness ==
    /\ pollRev = "file"
    /\ pcD = "close"
    /\ ~regOpen[dFp]
    /\ cancelled[dFp]
    /\ cancelMid[dFp] = 0
    /\ chCloses[dFp] = 1

\* part_032: a registration that fired is cancelled afterwards
C13_WitnessChan ==
    /\ pollRev = "chan"
    /\ \E r \in Regs :
          /\ chCloses[r] = 1
          /\ cancelled[r]
          /\ cancelMid[r] = 0

(* C14: calling cancel after ready has fired, or a second time, is a no-op:
   it removes no other registration from the poller, not even one made
   since then for a descriptor that has the same number. *)
C14_StaleCancelIsNoOp == stolen = {}


\* 1, 2, ..., n
UpTo(n) == [i \in 1..n |-> i]

\* C15: on one connection the responses are written in the order of the
\* requests, and when ServeConn parses the next request the response to the
\* previous one has left the bufio.Writer and the body of the previous
\* request has been read to its end.
C15_NextParsedAfterFlushAndDrain ==
    [][(pcH = "read" /\ pcH' = "serve") =>
          /\ Writer = <<>>
          /\ bodyLeft = 0
          /\ responded = UpTo(nreq)
          /\ responded' = responded]_vars

\* the second request of a connection is being served, the response to the
\* first one is on the connection
C15_Witness ==
    /\ pcH = "serve"
    /\ nreq = 2
    /\ responded = <<1>>
    /\ 1 \in answered
    /\ bodyLeft = 0
    /\ res.status # 0

\* C16: every request the client has written on a connection is eventually
\* answered (its status line reaches the connection), unless a request asked
\* to close the connection, an error was met, a handler panicked or took the
\* connection over, or ctx was cancelled.
C16_PipelinedAllAnswered ==
    \A r \in 1..MaxReqs : (nsent >= r) ~> (r \in answered \/ excused)

\* two requests were read from the socket at once, the first is answered,
\* and ServeConn waits for the descriptor to be readable while the second
\* sits in its bufio.Reader
C16_SecondRequestStuck ==
    /\ hasFile
    /\ pcH = "wait"
    /\ nreq = 1
    /\ 1 \in answered
    /\ Reader # <<>>
    /\ sock = <<>>
    /\ ~eof
    /\ ~excused

\* C17: when ServeConn waits for the next request of a connection, the
\* response writer is as it was made: no status, no error, no body mode, no
\* remaining length, an empty chunk buffer and the base header.
C17_WriterResetBetweenRequests ==
    (pcH = "wait" /\ nreq > 0) => res = newResponseWriter

\* the second request was served with the status of the first still set:
\* the handler returned, no error was met, and nothing was written for it
C17_SecondResponseSilent ==
    /\ pcH = "served"
    /\ nreq = 2
    /\ res.err = "nil"
    /\ wire = <<>>
    /\ Writer = <<>>
    /\ ~excused

\* what the server has written for the request it serves, flushed or not
Written == wire \o Writer

\* how many pieces of the kinds ts a sequence of pieces holds
Count(s, ts) == Cardinality({i \in DOMAIN s : s[i].t \in ts})

HeaderKinds == {"headerChunked", "headerLength", "headerNoBody"}

\* C18: for each request at most one status line and one header block are
\* written, and WriteHeader called with a status already set changes
\* nothing, whatever status it is given.
C18_OneStatusLinePerRequest ==
    /\ Count(Written, {"status"}) <= 1
    /\ Count(Written, HeaderKinds) <= 1
    /\ res.status # 0 => \A s \in {0, 200, 204, 500} : WriteHeader(Out, s) = Out

\* the handler of the first request has called WriteHeader again after the
\* header was written; one status line and one header block are there
C18_Witness ==
    /\ nreq = 1
    /\ whAgain
    /\ Count(Written, {"status"}) = 1
    /\ Count(Written, HeaderKinds) = 1

\* the piece at i of s belongs to a chunk "hex-length CRLF data CRLF" of a
\* length above zero, or is no piece of a chunk
InChunk(s, i) ==
    /\ s[i].t = "size" =>
          /\ s[i].n > 0
          /\ i + 2 <= Len(s)
          /\ s[i + 1] = Tok("data", s[i].n)
          /\ s[i + 2].t = "crlf"
    /\ s[i].t = "data" => (i > 1 /\ s[i - 1] = Tok("size", s[i].n))
    /\ s[i].t = "crlf" => (i > 1 /\ s[i - 1].t = "data")

\* C19: in a chunked response every chunk written is hex-length CRLF data
\* CRLF with a length above zero, and in chunked mode a Write of no bytes
\* and a Flush with an empty chunk buffer add no piece to what is written.
C19_ChunksWellFormed ==
    /\ Count(Written, {"headerChunked"}) = 1 =>
          \A i \in DOMAIN Written : InChunk(Written, i)
    /\ (res.chunked /\ res.err = "nil") =>
          /\ Write(Out, 0).w = Writer
          /\ Write(Out, 0).wire = wire
          /\ res.cwn = 0 => /\ cwFlush(Out).w = Writer
                            /\ Flush(Out).w = <<>>
                            /\ Flush(Out).wire = IF connBroken THEN wire ELSE Written

\* a chunked response with two chunks, the first one flushed from the chunk
\* buffer when it was full, the second one written past the buffer
C19_Witness ==
    /\ res.chunked
    /\ res.err = "nil"
    /\ res.cwn = 0
    /\ Count(Written, {"size"}) = 2
    /\ Written[3] = Tok("size", cwCap)

\* C20: when serveHTTP is done with a request whose handler returned, with
\* no error, and the header written announces the chunked encoding, the
\* response ends with the terminating chunk "0 CRLF CRLF", and no response
\* ever holds two of them.
C20_ChunkedEndsWithTerminator ==
    /\ Count(Written, {"last"}) <= 1
    /\ (pcH = "served" /\ ~excused /\ Count(wire, {"headerChunked"}) = 1) =>
          /\ Count(wire, {"last"}) = 1
          /\ wire[Len(wire)].t = "last"

\* the handler wrote and returned: the chunked response ends with the
\* terminating chunk
C20_TerminatedAfterWrite ==
    /\ pcH = "served"
    /\ ~excused
    /\ Count(wire, {"headerChunked"}) = 1
    /\ Count(wire, {"size"}) >= 1
    /\ wire[Len(wire)].t = "last"

RECURSIVE Data(_)
\* the data of the chunks of out, one after the other
Data(out) == IF out = <<>> THEN <<>> ELSE Head(out).data \o Data(Tail(out))

\* C21: the data of the chunks written, in order, followed by what is still
\* buffered, are exactly the bytes given to Write, in order; once the
\* writer is closed nothing is buffered, and every chunk says its length.
C21_ChunksCarryTheWrites ==
    /\ Data(cw.out) \o cw.b = cw.in
    /\ cw.closed => cw.b = <<>>
    /\ \A i \in DOMAIN cw.out : cw.out[i].size = Len(cw.out[i].data)

\* writes smaller than the buffer that fill it, a write larger than the
\* buffer, and the end: three chunks and the terminating one
C21_Witness ==
    /\ cw.closed
    /\ Len(cw.out) = 4
    /\ Len(cw.in) > 2 * cwCap
    /\ cw.out[1].size = cwCap

\* the body bytes among the pieces s
RECURSIVE DataSum(_)
DataSum(s) ==
    IF s = <<>>
    THEN 0
    ELSE (IF Head(s).t = "data" THEN Head(s).n ELSE 0) + DataSum(Tail(s))

\* the Content-Length the header block among the pieces s declares, -1 when
\* there is none
Declared(s) ==
    IF \E i \in DOMAIN s : s[i].t = "headerLength"
    THEN (CHOOSE q \in {s[i] : i \in DOMAIN s} : q.t = "headerLength").n
    ELSE -1

\* C22: a response with a Content-Length never carries more body bytes than
\* the header declares; a Write that would exceed it sends the bytes that
\* still fit and nothing else, and returns ErrContentLength.
C22_FixedLengthNeverExceeded ==
    /\ Declared(Written) >= 0 => DataSum(Written) <= Declared(Written)
    /\ (pcH = "serve" /\ werr = "ErrContentLength") =>
          /\ res.remain = 0
          /\ Declared(Written) >= 0 => DataSum(Written) = Declared(Written)
    /\ (res.status # 0 /\ res.hasBody /\ ~res.chunked /\ res.err = "nil") =>
          \A len \in 0..MaxWrite :
             LET fit == Min(len, res.remain)
             IN  /\ Write(Out, len).wire = wire
                 /\ Write(Out, len).w =
                       IF fit > 0 THEN Append(Writer, Tok("data", fit)) ELSE Writer
                 /\ (WriteErr(Out, len) = "ErrContentLength") <=> (len > res.remain)

\* the handler declared two bytes and wrote three in one call: two were sent
\* after the header and the call returned ErrContentLength
C22_Witness ==
    /\ pcH = "serve"
    /\ werr = "ErrContentLength"
    /\ Declared(Written) = MaxWrite - 1
    /\ Written[Len(Written)] = Tok("data", MaxWrite - 1)
    /\ Len(Written) = 3

\* C23: when the server moves on to the next request of the connection, the
\* body bytes sent for a response with a Content-Length are as many as the
\* header declared.
C23_FixedLengthBodyComplete ==
    [][(pcH = "served" /\ pcH' = "wait" /\ Declared(wire) >= 0)
          => DataSum(wire) = Declared(wire)]_vars

\* a response declared with a Content-Length has been sent with fewer body
\* bytes, without an error of the writer, on a connection that stays open
C23_ShortBodyServed ==
    /\ pcH = "served"
    /\ res.err = "nil"
    /\ ~closed
    /\ ~req.close
    /\ Writer = <<>>
    /\ Declared(wire) = MaxWrite - 1
    /\ DataSum(wire) < Declared(wire)

\* statuses that forbid a body: 1xx, 204 No Content, 304 Not Modified
NoBodyStatus == {100, 101, 204, 304}

\* C24: for a response of status 1xx, 204 or 304 WriteHeader removes
\* Content-Length and Transfer-Encoding before it writes the header block,
\* every Write returns ErrBodyNotAllowed and sends nothing, and nothing but
\* the status line and the header block is written for the response.
C24_NoBodyForbidsWrites ==
    /\ (res.status = 0 /\ res.err = "nil") =>
          \A s \in NoBodyStatus :
             LET y == WriteHeader(Out, s)
             IN  /\ ~y.res.hasBody
                 /\ y.res.header.cl = -1
                 /\ ~y.res.header.te
                 /\ y.w = Writer \o <<Tok("status", s), Tok("headerNoBody", 0)>>
                 /\ \A len \in 0..MaxWrite :
                       /\ WriteErr(y, len) = "ErrBodyNotAllowed"
                       /\ Write(y, len) = y
    /\ Count(Written, {"headerNoBody"}) = 1 =>
          /\ res.header.cl = -1
          /\ ~res.header.te
    /\ res.status \in NoBodyStatus =>
          /\ \A i \in DOMAIN Written : Written[i].t \in {"status", "headerNoBody"}
          /\ (pcH = "serve" /\ res.err = "nil") =>
                /\ werr \in {"nil", "ErrBodyNotAllowed"}
                /\ \A len \in 0..MaxWrite :
                      /\ WriteErr(Out, len) = "ErrBodyNotAllowed"
                      /\ Write(Out, len) = Out

\* the handler answered 204 and then called Write, which returned
\* ErrBodyNotAllowed: the status line and a header block without
\* Content-Length and Transfer-Encoding are all that was written
C24_Witness ==
    /\ pcH = "serve"
    /\ nreq = 1
    /\ res.status = 204
    /\ werr = "ErrBodyNotAllowed"
    /\ Written = <<Tok("status", 204), Tok("headerNoBody", 0)>>

\* ServeConn leaves the response it has just served: it returns, or it
\* drains the request body, resets the writer and waits for the next request
Stops == pcH' = "done" /\ scClosed' /\ nreq' = nreq /\ Reader' = Reader /\ sock' = sock
GoesOn == pcH' = "wait" /\ bodyLeft' = 0 /\ res' = responseWriterReset(res) /\ ~scClosed'

\* C25, as stated: after a response the server stops when the request asked
\* to close (or was HTTP/1.0 without keep-alive), a write error occurred or
\* the connection was hijacked, and in every other case drains the request
\* body and waits for the next request.
C25_StopsOnlyOnCloseErrorHijack ==
    [][(pcH = "served" /\ pcH' # "served") =>
          IF closed \/ res.err # "nil" THEN Stops ELSE GoesOn]_vars

\* C25, amended: the server also stops when the handler panicked after the
\* header was written (the deferred function sets req.Close); an error of
\* the writer, Hijack included, stays until the response is over.
C25_StopOrContinue ==
    [][/\ (pcH = "served" /\ pcH' # "served") =>
             IF closed \/ res.err # "nil" \/ (werr = "panic" /\ req.close)
             THEN Stops
             ELSE GoesOn
       /\ (pcH = "serve" /\ res.err # "nil") => res'.err # "nil"
       /\ (pcH = "served" /\ req.close /\ ~closed) =>
             (werr = "panic" /\ res.status # 0)]_vars

\* the second request of a connection is being served after a first one
\* that did not ask to close and was answered without error
C25_Witness ==
    /\ nreq = 2
    /\ pcH = "serve"
    /\ ~scClosed
    /\ 1 \in answered
    /\ ~excused

\* the handler panicked after it had written the header of a request that
\* did not ask to close, no error on the writer: the server stops
C25_StoppedAfterPanic ==
    /\ pcH = "served"
    /\ ~closed
    /\ res.err = "nil"
    /\ werr = "panic"
    /\ req.close

\* C26: once Hijack has succeeded, WriteHeader, Write, Flush and Hijack on
\* the writer return ErrHijacked or do nothing, and the server writes no
\* further byte, a panic of the handler afterwards being recovered like
\* any other.
C26_HijackedWriterInert ==
    /\ (pcH = "serve" /\ res.err = "hijacked") =>
          /\ \A s \in {0, 200, 204} :
                /\ ~WriteHeaderOnNil(Out, s)
                /\ WriteHeader(Out, s) = Out
          /\ \A len \in 0..MaxWrite :
                /\ Write(Out, len) = Out
                /\ WriteErr(Out, len) = "ErrHijacked"
          /\ Flush(Out) = Out
          /\ Hijack(Out) = Out
          /\ HijackErr(Out) = "ErrHijacked"
    /\ pcH # "crashed"

\* the handler of the first request called Hijack and then WriteHeader with
\* no status set before: the call panicked on the nil connection, leaving
\* the status set and nothing written
C26_WriteHeaderPanicked ==
    /\ nreq = 1
    /\ pcH = "served"
    /\ res.err = "hijacked"
    /\ werr = "panic"
    /\ res.status # 0
    /\ Written = <<>>

\* C27: once the connection is hijacked the server does not read from it,
\* write to it or close it any more.
C27_HijackedConnLeftAlone ==
    /\ [](res.err = "hijacked" => ~scClosed)
    /\ [][res.err = "hijacked" =>
             /\ Reader' = Reader
             /\ sock' = sock
             /\ Writer' = Writer
             /\ wire' \in {wire, <<>>}]_vars

\* ServeConn has returned after a handler that hijacked the connection and
\* returned, and its deferred sc.Close() has closed the connection
C27_ClosedAfterHijack ==
    /\ pcH = "done"
    /\ res.err = "hijacked"
    /\ scClosed
    /\ nreq = 1

C29_HeaderParserLimited ==
    /\ hp.given <= maxHeaderBytes
    /\ (hp.n > 0 /\ hp.lens[hp.n] > maxHeaderBytes) => hp.pc \in {"parse", "failed"}

\* the second request of a pipelined pair is served with a header longer
\* than maxHeaderBytes, all of it given to the parser
C29_LongHeaderServed ==
    /\ hp.pc = "serve"
    /\ hp.n = 2
    /\ hp.lens[2] > maxHeaderBytes
    /\ hp.given = hp.lens[2]

\* C30: waitReadyRead returns a timeout only when the idle timeout is not 0
\* and that long has passed since the call, no data having arrived.
C30_TimeoutOnlyAfterIdle ==
    wt.result = "timeout" =>
       /\ wt.timeout # 0
       /\ wt.now >= wt.since + wt.timeout

\* on a connection without a file the call has returned a timeout before
\* the idle timeout has passed
C30_EarlyTimeout ==
    /\ wt.pc = "returned"
    /\ ~wt.file
    /\ wt.result = "timeout"
    /\ wt.now < wt.since + wt.timeout

\* C40: a Write of the chunkWriter that reports no error (the writer under
\* it never fails here) returns the length of the slice it was given,
\* whatever the buffer held.
C40_WriteReturnsLength == cw.ret = cw.last

\* a Write of more bytes than the buffer had room for, with bytes buffered
\* before, has returned less than the length of its slice
C40_ShortCount ==
    /\ cw.calls = 2
    /\ cw.last = MaxWrite
    /\ cw.ret < cw.last
    /\ Data(cw.out) \o cw.b = cw.in

\* C36: in the tunnel multiplexer ReadTimeout only limits the wait for the
\* first bytes: while the chosen protocol's handler runs, the context it was
\* given is done only if the caller's context is, never because ReadTimeout
\* expired.
C36_HandlerCtxOutlivesReadTimeout ==
    (tm.pc = "handler" /\ ~tm.parent) => ~TmuxHandlerCtxDone(tm)

C36_HandlerCancelledByTimeout ==
    /\ tm.pc = "handler"
    /\ tm.timed
    /\ tm.fired
    /\ ~tm.parent
    /\ tm.gaveup

C36_HandlerRan ==
    /\ tm.pc = "handler"
    /\ tm.timed
    /\ tm.proto >= 0
    /\ tm.hctx = "timeout"

\* C39: while guessProtocol asks the protocols, the tee buffer holds every
\* byte read from the connection so far, in order, and the protocol being
\* asked has read a prefix of that buffer: after a reset the next protocol
\* starts at the first byte again and gets a new byte from the connection
\* only once the whole buffer has been replayed.
C39_TeeReplaysFromStart ==
    pcM \in {"loop", "probe"} =>
        /\ teeB = SubSeq(sent, 1, rpos)
        /\ pcM = "loop" => teeI = 0
        /\ pcM = "probe" => /\ teeI = Len(pb)
                            /\ teeI <= Len(teeB)
                            /\ pb = SubSeq(teeB, 1, teeI)

C39_ReplayedThenRead ==
    /\ pcM = "probe"
    /\ pi = 2
    /\ Len(sent) >= 2
    /\ Len(protos[1].want) = 1
    /\ protos[1].want # <<sent[1]>>
    /\ Len(pb) = 2
    /\ rpos = 2
    /\ teeB = pb

\* C31: when ReadTimeout passes while http.ReadRequest waits for the rest
\* of a header, ServeConn returns with the connection closed and without a
\* byte written for that request: the responses on the wire are those of
\* the requests read before, and a client that has read them gets EOF.
C31_ReadTimeoutClosesSilently ==
    rq.why = "timeout" =>
        /\ rq.pc = "done"
        /\ rq.closed
        /\ rq.wire = rq.nreq
        /\ rq.cread = rq.wire => RtClientReadGives(rq) = "eof"
        /\ rq.saw = "eof" => rq.cread = rq.nreq

C31_PartialHeaderTimedOut ==
    /\ rq.why = "timeout"
    /\ rq.nreq = 0
    /\ rq.nsent > 0
    /\ rq.nsent < HeaderParts
    /\ rq.buf = rq.nsent
    /\ rq.saw = "eof"

\* C37: when an address resolves to several and binding one of them fails,
\* Listen returns a non-nil error and no listener, the listeners it had
\* opened being closed.
C37_ListenFailureReported ==
    (ml.pc = "failed" /\ ml.n > 1) =>
        /\ ml.err # "nil"
        /\ ml.lstn = "nil"
        /\ ml.lclosed = ml.open

C37_ListenFailedSilently ==
    /\ ml.pc = "failed"
    /\ ml.n > 1
    /\ ml.open # {}
    /\ ml.lclosed = ml.open
    /\ ml.lstn = "nil"
    /\ ml.err = "nil"

\* C32: when a Close of the compound listener has returned, every child
\* is closed, every child goroutine has exited and every connection a child
\* accepted was returned by Accept or closed; and every call of Close,
\* the first, a later one or a concurrent one, returns.
C32_CloseJoinsChildren ==
    /\ [](\A c \in Closers :
            ml.cl[c] = "returned" =>
                /\ ml.lclosed = Children
                /\ \A k \in Children : ml.g[k] = "exited"
                /\ ml.nacc = ml.returned + ml.cclosed)
    /\ \A c \in Closers : (ml.cl[c] # "none") ~> (ml.cl[c] = "returned")

C32_BothClosesReturned ==
    /\ \A c \in Closers : ml.cl[c] = "returned"
    /\ ml.returned > 0
    /\ ml.cclosed > 0
    /\ ml.last = "closed"

\* C33: once the Forwarder's ServeTunnel has returned on the cancellation of
\* its context, both connections of the tunnel are closed.
C33_ForwarderClosesBoth ==
    (fw.pc = "return" /\ fw.ctx) => (fw.fromClosed /\ fw.toClosed)

C33_ReturnedWithOpenConns ==
    /\ fw.pc = "return"
    /\ fw.ctx
    /\ ~fw.fromClosed
    /\ ~fw.toClosed
    /\ \A d \in Dirs : fw.cp[d] = "run" /\ fw.dl[d] > 0

\* C34: when the client closes its end of a tunnelled connection, the
\* target's connection gets closed, the handler returns and the client's
\* connection is closed too, whether or not the server shuts down.
C34_ClientCloseEndsTunnel ==
    (fw.pc = "wait" /\ fw.eof["up"]) ~>
        (fw.pc = "done" /\ fw.toClosed /\ fw.fromClosed)

C34_ClientClosedTunnelWaits ==
    /\ fw.pc = "wait"
    /\ fw.eof["up"]
    /\ fw.cp["up"] = "done"
    /\ fw.cp["down"] = "run"
    /\ fw.q["down"] = 0
    /\ ~fw.ctx
    /\ ~fw.toClosed
    /\ ~fw.fromClosed

\* C35: a connection the ConnTransport dialled itself is closed when
\* RoundTrip has returned an error, and when the body of the response it
\* returned has been closed.
C35_DialledConnNeverLeaked ==
    (ct.dialled /\ ct.pc \in {"returned", "closed"}) => ~ct.open

C35_FailedTripLeavesConnOpen ==
    /\ ct.dialled
    /\ ct.pc = "returned"
    /\ ct.err \in {"write", "flush", "malformed", "temp"}
    /\ ct.open

\* C38: when a Read of the connection fails with an error that is not
\* temporary, during RoundTrip or while the body is read, the call does not
\* crash and returns that error.
C38_ReadErrorReturned ==
    (ct.rerr # "nil" /\ ~IsTemporary(ct.rerr)) =>
        (ct.pc # "crashed" /\ ct.err = ct.rerr)

C38_CrashOnReadError ==
    /\ ct.pc = "crashed"
    /\ ct.cancel = "nil"
    /\ ct.rerr = "EOF"
    /\ ct.at = "RoundTrip"
    /\ ct.err = "nil"

====
